---- MODULE Spec2Model ----
(***************************************************************************)
(* A model of yeet: the EDN reader (src/src/edn/edn.cpp) and the LLVM      *)
(* lowerer (src/src/engine/engine.cpp).                                    *)
(*                                                                         *)
(* A std::string is modelled as a sequence of one-character strings, so    *)
(* that substr, strspn, find_first_of and the byte-by-byte scan of lex     *)
(* are computed the way the code computes them.                            *)
(***************************************************************************)
EXTENDS Integers, Sequences, FiniteSets, TLC

VARIABLES
  src,      \* the string handed to lex / read
  pc,       \* position of the code under check
  lx,       \* the locals of lex: it, line, column, escaping, inString, ...
  starts,   \* history: for each emitted token, the index in src of its first byte
  curAtom,  \* history: index in src of the first byte of the atom in lx.token
  curStr,   \* history: index in src of the quote that opened the current string
  accepts,  \* the atom predicates that returned true for src
  rd,       \* what read(src) returned or threw
  printed,  \* pprint of the node read
  rd2,      \* what read(printed) returned or threw
  eng,      \* Engine::run: the engine after the lowering, and its value or exception
  out,      \* Engine::run: what the run reported; main: the line of the JIT result
  argv,     \* main: what options.parse makes of the command line
  files,    \* main: the files the command line can name
  calc,     \* main: what codegenExpr of main.cpp returned or threw
  status    \* main: how the process ended

lexVars == <<lx, starts, curAtom, curStr>>
readVars == <<accepts, rd, printed, rd2>>
runVars == <<eng, out>>
mainVars == <<argv, files, calc, status>>
vars == <<src, pc, lx, starts, curAtom, curStr, accepts, rd, printed, rd2, eng, out,
          argv, files, calc, status>>

(***************************************************************************)
(* Bounds of the model.                                                    *)
(***************************************************************************)
MaxSrcLen == 4
MaxAtomLen == 3
MaxReadLen == 4

(***************************************************************************)
(* Characters.                                                             *)
(***************************************************************************)
NL == "\n"
CR == "\r"
TAB == "\t"
QUOTE == "\""
escapeChar == "\\"

\* All sequences over S of length 0..n.
RECURSIVE SeqsUpTo(_, _)
SeqsUpTo(S, n) ==
  IF n = 0 THEN {<<>>}
  ELSE LET shorter == SeqsUpTo(S, n - 1)
       IN shorter \cup {Append(s, c) : s \in {t \in shorter : Len(t) = n - 1}, c \in S}

(***************************************************************************)
(* edn.cpp: the lexer.                                                     *)
(***************************************************************************)
EdnToken(type, line, column, value) ==
  [type |-> type, line |-> line, column |-> column, value |-> value]

\* createToken: push_back of a token built from the four arguments.
createToken(type, line, column, value, tokens) ==
  Append(tokens, EdnToken(type, line, column, value))

\* The locals of lex before the first iteration.
LexInit ==
  [it |-> 1, line |-> 1, column |-> 1, escaping |-> FALSE, inString |-> FALSE,
   stringContent |-> <<>>, inComment |-> FALSE, token |-> <<>>, tokens |-> <<>>]

isParenChar(c) == c \in {"(", ")", "[", "]", "{", "}"}
isSeparatorChar(c) == isParenChar(c) \/ c \in {TAB, NL, CR, " ", ","}

\* What one iteration of the for loop of lex does with byte c, before the
\* loop's increment (++it, ++column).
LexBody(s, c) ==
  LET s1 == IF c = NL \/ c = CR
            THEN [s EXCEPT !.line = @ + 1, !.column = 1] ELSE s
      s2 == IF ~s1.inString /\ c = ";" /\ ~s1.escaping
            THEN [s1 EXCEPT !.inComment = TRUE] ELSE s1
  IN
  IF s2.inComment /\ c = NL THEN
    \* end of the comment: flush the atom, continue
    IF s2.token # <<>>
    THEN [s2 EXCEPT !.inComment = FALSE,
                    !.tokens = createToken("TokenAtom", s2.line, s2.column, s2.token, @),
                    !.token = <<>>]
    ELSE [s2 EXCEPT !.inComment = FALSE]
  ELSE IF c = QUOTE /\ ~s2.escaping THEN
    IF s2.inString
    THEN [s2 EXCEPT !.tokens = createToken("TokenString", s2.line, s2.column, s2.stringContent, @),
                    !.inString = FALSE]
    ELSE [s2 EXCEPT !.stringContent = <<>>, !.inString = TRUE]
  ELSE IF s2.inString THEN
    IF c = escapeChar /\ ~s2.escaping
    THEN [s2 EXCEPT !.escaping = TRUE]
    ELSE IF s2.escaping
         THEN [s2 EXCEPT !.escaping = FALSE,
                         !.stringContent =
                            IF c \in {"t", "n", "f", "r"}
                            THEN @ \o <<escapeChar, c>> ELSE Append(@, c)]
         ELSE [s2 EXCEPT !.stringContent = Append(@, c)]
  ELSE IF isSeparatorChar(c) THEN
    LET flushed == IF s2.token # <<>>
                   THEN [s2 EXCEPT !.tokens = createToken("TokenAtom", s2.line, s2.column, s2.token, @),
                                   !.token = <<>>]
                   ELSE s2
    IN IF isParenChar(c)
       THEN [flushed EXCEPT !.tokens = createToken("TokenParen", s2.line, s2.column, <<c>>, @)]
       ELSE flushed
  ELSE
    LET e == IF s2.escaping THEN [s2 EXCEPT !.escaping = FALSE]
             ELSE IF c = escapeChar THEN [s2 EXCEPT !.escaping = TRUE]
             ELSE s2
        early == e.token = <<"#", "_">> \/ (Len(e.token) = 2 /\ e.token[1] = escapeChar)
        f == IF early
             THEN [e EXCEPT !.tokens = createToken("TokenAtom", e.line, e.column, e.token, @),
                            !.token = <<>>]
             ELSE e
    IN [f EXCEPT !.token = Append(@, c)]

\* One full iteration: the body, then ++it, ++column.
LexIter(s, c) ==
  LET b == LexBody(s, c) IN [b EXCEPT !.it = @ + 1, !.column = @ + 1]

\* After the loop: the pending atom is flushed.
LexFinish(s) ==
  IF s.token # <<>>
  THEN [s EXCEPT !.tokens = createToken("TokenAtom", s.line, s.column, s.token, @),
                 !.token = <<>>]
  ELSE s

RECURSIVE LexLoop(_, _)
LexLoop(s, edn) ==
  IF s.it > Len(edn) THEN s ELSE LexLoop(LexIter(s, edn[s.it]), edn)

\* lex(edn): the token list.
lex(edn) == LexFinish(LexLoop(LexInit, edn)).tokens

(***************************************************************************)
(* edn.cpp: std::string operations as the code uses them.  size_t          *)
(* arithmetic wraps; every length of the model is far below 2^16, so it is *)
(* computed modulo 2^16, which clamps and throws exactly where 2^64 does.  *)
(***************************************************************************)
SizeMod == 2 ^ 16
ToSize(x) == x % SizeMod
\* size_t -> int (npos becomes -1)
ToInt(x) == IF ToSize(x) >= SizeMod \div 2 THEN ToSize(x) - SizeMod ELSE ToSize(x)
Npos == SizeMod - 1

\* The value standing for a std::out_of_range thrown by substr / at.
OutOfRange == <<"std::out_of_range">>

Min(a, b) == IF a < b THEN a ELSE b

\* s.substr(pos, n), pos and n of type size_t: throws when pos > size().
Substr(s, pos, n) ==
  IF ToSize(pos) > Len(s) THEN OutOfRange
  ELSE SubSeq(s, ToSize(pos) + 1, ToSize(pos) + Min(ToSize(n), Len(s) - ToSize(pos)))

\* std::strspn(s, range): length of the longest prefix of s made of bytes in range.
RECURSIVE strspn(_, _)
strspn(s, range) ==
  IF s = <<>> \/ s[1] \notin range THEN 0 ELSE 1 + strspn(Tail(s), range)

\* s.find_first_of(c) as a size_t (Npos when absent).
RECURSIVE FindFrom(_, _, _)
FindFrom(s, c, i) ==
  IF i > Len(s) THEN Npos ELSE IF s[i] = c THEN i - 1 ELSE FindFrom(s, c, i + 1)
find_first_of(s, c) == FindFrom(s, c, 1)

CountChar(s, c) == Cardinality({i \in 1..Len(s) : s[i] = c})

Digits == {"0", "1", "2", "3", "4", "5", "6", "7", "8", "9"}
LowerLetters == <<"a", "b", "c", "d", "e", "f", "g", "h", "i", "j", "k", "l", "m",
                  "n", "o", "p", "q", "r", "s", "t", "u", "v", "w", "x", "y", "z">>
UpperLetters == <<"A", "B", "C", "D", "E", "F", "G", "H", "I", "J", "K", "L", "M",
                  "N", "O", "P", "Q", "R", "S", "T", "U", "V", "W", "X", "Y", "Z">>
validSymbolChars ==
  Digits \cup {UpperLetters[i] : i \in 1..26}
         \cup {".", "*", "+", "!", "-", "_", "?", "$", "%", "&", "=", ":", "#", "/", ">", "<", ";"}

toupper(c) ==
  IF \E i \in 1..26 : LowerLetters[i] = c
  THEN UpperLetters[CHOOSE i \in 1..26 : LowerLetters[i] = c]
  ELSE c
uppercase(str) == [i \in 1..Len(str) |-> toupper(str[i])]

\* Whether every byte of strRange is in range; strRange may be the exception
\* thrown by substr.
allIn(strRange, range) ==
  IF strRange = OutOfRange THEN "throw"
  ELSE IF strspn(strRange, range) = Len(strRange) THEN "true" ELSE "false"

\* strRangeIn(str, range, start, stop): "true", "false", or "throw" when substr throws.
strRangeIn(str, range, start, stop) == allIn(Substr(str, start, stop), range)

(***************************************************************************)
(* edn.cpp: the atom predicates.  Each yields "true", "false" or "throw"   *)
(* (a std::out_of_range raised inside it).                                 *)
(***************************************************************************)
\* validSymbol after the value is put in upper case.
validSymbolUpper(value) ==
  IF strspn(value, validSymbolChars) # Len(value) THEN "false"
  ELSE IF strRangeIn(value, Digits, 0, 1) = "true" THEN "false"
  ELSE IF strRangeIn(value, {":", "#", "/"}, 0, 1) = "true"
          /\ ~(Len(value) = 1 /\ value[1] = "/") THEN "false"
  ELSE IF strRangeIn(value, {"-", "+", "."}, 0, 1) = "true" /\ Len(value) > 1
          /\ strRangeIn(value, Digits, 1, 1) = "true" THEN "false"
  ELSE IF CountChar(value, "/") > 1 THEN "false"
  ELSE "true"

validSymbol(value) == validSymbolUpper(uppercase(value))

validKeyword(value) ==
  IF value # <<>> /\ value[1] = ":"
  THEN validSymbol(Substr(value, 1, Len(value) - 1))
  ELSE "false"

validNil(value) == IF value = <<"n", "i", "l">> THEN "true" ELSE "false"

validBool(value) ==
  IF value = <<"t", "r", "u", "e">> \/ value = <<"f", "a", "l", "s", "e">>
  THEN "true" ELSE "false"

\* The last test of validInt: value is all digits.
validIntDigits(value) == IF strspn(value, Digits) # Len(value) THEN "false" ELSE "true"

\* validInt after the sign is removed; suffix tells whether value ends in N or M.
validIntSuffix(value, suffix) ==
  IF suffix = "throw" THEN "throw"
  ELSE validIntDigits(IF suffix = "true" THEN Substr(value, 0, Len(value) - 2) ELSE value)

\* validInt after the sign is removed.
validIntUnsigned(value) ==
  validIntSuffix(value, strRangeIn(value, {"N", "M"}, ToInt(Len(value) - 1), 1))

validInt(value, allowSign) ==
  validIntUnsigned(IF strRangeIn(value, {"-", "+"}, 0, 1) = "true" /\ Len(value) > 1 /\ allowSign
                   THEN Substr(value, 1, Len(value) - 1) ELSE value)

\* validFloat when back holds an E at epos: dec and exp are validInt of the
\* text before and after the E.
validFloatExp(dec, exp) ==
  IF dec = "throw" THEN "throw"
  ELSE IF dec = "false" THEN "false"
  ELSE IF exp = "throw" THEN "throw"
  ELSE IF exp = "false" THEN "false"
  ELSE "true"

\* validFloat when back holds no E: endsM tells whether back ends in M.
validFloatPlain(back, endsM) ==
  IF endsM = "throw" THEN "throw"
  ELSE validInt(IF endsM = "true" THEN Substr(back, 0, Len(back) - 1) ELSE back, FALSE)

\* validFloat from the test of front on: frontOk is its result, epos the
\* position of E in back (-1 when absent).
validFloatBack(frontOk, back, epos) ==
  IF frontOk = "throw" THEN "throw"
  ELSE IF frontOk = "false" THEN "false"
  ELSE IF epos > -1 THEN
    IF ToSize(epos) = ToSize(Len(back) - 1) THEN "false"
    ELSE validFloatExp(validInt(Substr(back, 0, epos), FALSE),
                       validInt(Substr(back, epos + 1, Npos), TRUE))
  ELSE validFloatPlain(back, strRangeIn(back, {"M"}, ToInt(Len(back) - 1), 1))

\* validFloat once the value is split at the period.
validFloatParts(front, back) ==
  validFloatBack(IF front = <<>> THEN "true" ELSE validInt(front, TRUE),
                 back, ToInt(find_first_of(back, "E")))

\* validFloat once the period is found.
validFloatAt(value, periodPos) ==
  validFloatParts(IF periodPos # 0 THEN Substr(value, 0, periodPos) ELSE <<>>,
                  IF periodPos # 0 THEN Substr(value, periodPos + 1, Npos) ELSE value)

\* validFloat after the value is put in upper case.
validFloatUpper(value) == validFloatAt(value, ToInt(find_first_of(value, ".")))

validFloat(value) == validFloatUpper(uppercase(value))

validChar(value) ==
  IF value = <<>> THEN "throw"
  ELSE IF value[1] = escapeChar /\ Len(value) = 2 THEN "true" ELSE "false"

(***************************************************************************)
(* edn.cpp: the parser.  A call yields either a node and the tokens left,  *)
(* or the exception it throws: exc is the C++ type of the thrown object    *)
(* ("const char*", "std::string", "std::out_of_range"), or "UB" when the   *)
(* call has undefined behaviour (front() of an empty list).                *)
(*                                                                         *)
(* u holds the values read from fields the code never initialises          *)
(* (u.type: EdnNode::type in handleCollection, u.column: symToken.column   *)
(* in handleTagged).                                                       *)
(***************************************************************************)
NodeTypes ==
  {"EdnNil", "EdnSymbol", "EdnKeyword", "EdnBool", "EdnInt", "EdnFloat", "EdnString",
   "EdnChar", "EdnList", "EdnVector", "EdnMap", "EdnSet", "EdnDiscard", "EdnTagged"}

EdnNode(type, line, column, value, values) ==
  [type |-> type, line |-> line, column |-> column, value |-> value,
   values |-> values, metadata |-> {}]

NoNode == EdnNode("none", 0, 0, <<>>, <<>>)

Ok(node, rest) == [ok |-> TRUE, node |-> node, rest |-> rest, exc |-> "", msg |-> ""]
Throw(exc, msg) == [ok |-> FALSE, node |-> NoNode, rest |-> <<>>, exc |-> exc, msg |-> msg]

\* The if chain of handleAtom from validChar on, over the results of the
\* predicates, which are called in this order, each only when all before it
\* returned false.
atomType(isChar, isBool, isInt, isFloat, isKeyword, isSymbol) ==
  IF isChar = "throw" THEN "throw"
  ELSE IF isChar = "true" THEN "EdnChar"
  ELSE IF isBool = "true" THEN "EdnBool"
  ELSE IF isInt = "throw" THEN "throw"
  ELSE IF isInt = "true" THEN "EdnInt"
  ELSE IF isFloat = "throw" THEN "throw"
  ELSE IF isFloat = "true" THEN "EdnFloat"
  ELSE IF isKeyword = "true" THEN "EdnKeyword"
  ELSE IF isSymbol = "true" THEN "EdnSymbol"
  ELSE "none"

\* The node handleAtom returns for a token of the given type, or what it throws.
atomNode(token, type) ==
  IF type = "throw" THEN Throw("std::out_of_range", "basic_string")
  ELSE IF type = "none" THEN Throw("const char*", "Could not parse atom")
  ELSE Ok(EdnNode(type, token.line, token.column, token.value, <<>>), <<>>)

handleAtom(token) ==
  atomNode(token,
           IF validNil(token.value) = "true" THEN "EdnNil"
           ELSE IF token.type = "TokenString" THEN "EdnString"
           ELSE atomType(validChar(token.value), validBool(token.value),
                         validInt(token.value, TRUE), validFloat(token.value),
                         validKeyword(token.value), validSymbol(token.value)))

handleCollection(token, values, u) ==
  LET type == IF token.value = <<"{">> THEN "EdnMap"
              ELSE IF token.value = <<"(">> THEN "EdnList"
              ELSE IF token.value = <<"[">> THEN "EdnVector"
              ELSE u.type
  IN EdnNode(type, token.line, token.column, <<>>, values)

\* The body of handleTagged once the tag name is cut out of the token and
\* handleAtom has been applied to it.
handleTaggedSym(token, value, tagName, sym) ==
  IF tagName # <<"_">> /\ tagName = <<>> THEN
    IF value.type # "EdnMap"
    THEN Throw("const char*", "Was expection a { } after hash to build set")
    ELSE Ok(EdnNode("EdnSet", token.line, token.column, <<>>, value.values), <<>>)
  ELSE IF validSymbol(tagName) # "true" THEN Throw("const char*", "Invalid tag name")
  ELSE IF ~sym.ok THEN sym
  ELSE Ok(EdnNode(IF tagName = <<"_">> THEN "EdnDiscard" ELSE "EdnTagged",
                  token.line, token.column, <<>>, <<sym.node, value>>), <<>>)

handleTagged(token, value, u) ==
  handleTaggedSym(token, value, Substr(token.value, 1, Len(token.value) - 1),
                  handleAtom(EdnToken("TokenAtom", token.line, u.column,
                                      Substr(token.value, 1, Len(token.value) - 1))))

closeParenOf(open) ==
  IF open = <<"{">> THEN <<"}">>
  ELSE IF open = <<"[">> THEN <<"]">>
  ELSE IF open = <<"(">> THEN <<")">>
  ELSE <<>>

\* A result of readAhead with the tokens left after it.
WithRest(r, rest) == IF r.ok THEN Ok(r.node, rest) ELSE r

RECURSIVE readAhead(_, _, _)
RECURSIVE readCollection(_, _, _, _, _)
RECURSIVE readCollectionChild(_, _, _, _, _, _)

\* One pass of the while (true) loop of readAhead, child being what
\* readAhead returns for the next token.
readCollectionChild(token, closeParen, L, tokens, u, child) ==
  IF Head(tokens).value = closeParen
  THEN Ok(handleCollection(token, L, u), Tail(tokens))
  ELSE IF ~child.ok THEN child
  ELSE readCollection(token, closeParen, Append(L, child.node), child.rest, u)

\* The while (true) loop of readAhead for a TokenParen token.
readCollection(token, closeParen, L, tokens, u) ==
  IF tokens = <<>> THEN Throw("const char*", "unexpected end of list")
  ELSE readCollectionChild(token, closeParen, L, tokens, u,
                           readAhead(Head(tokens), Tail(tokens), u))

\* The tagged branch of readAhead, payload being what readAhead returns for
\* the token after the tag.
readTagged(token, payload, u) ==
  IF ~payload.ok THEN payload
  ELSE WithRest(handleTagged(token, payload.node, u), payload.rest)

readAhead(token, tokens, u) ==
  IF token.type = "TokenParen"
  THEN readCollection(token, closeParenOf(token.value), <<>>, tokens, u)
  ELSE IF token.value \in {<<")">>, <<"]">>, <<"}">>}
  THEN Throw("std::string", "Unexpected closer")
  ELSE IF token.value # <<>> /\ token.value[1] = "#"
  THEN IF tokens = <<>> THEN Throw("UB", "front() of an empty list")
       ELSE readTagged(token, readAhead(Head(tokens), Tail(tokens), u), u)
  ELSE WithRest(handleAtom(token), tokens)

\* read(edn): lex, then one readAhead from the first token.
read(edn, u) ==
  LET tokens == lex(edn)
  IN IF Len(tokens) = 0
     THEN Throw("const char*", "No parsable tokens found in string")
     ELSE readAhead(Head(tokens), Tail(tokens), u)

(***************************************************************************)
(* edn.cpp: the pretty-printer.                                            *)
(***************************************************************************)
RECURSIVE escapeQuotes(_)
escapeQuotes(before) ==
  IF before = <<>> THEN <<>>
  ELSE (IF before[1] \in {QUOTE, escapeChar} THEN <<escapeChar>> ELSE <<before[1]>>)
       \o escapeQuotes(Tail(before))

\* The value standing for the undefined behaviour of pprint on a map with an
\* odd number of children (it dereferences values.end()).
PprintUB == <<"UB">>

Spaces(n) == [i \in 1..n |-> " "]

RECURSIVE pprint(_, _, _)
RECURSIVE pprintValues(_, _, _, _, _)
RECURSIVE pprintChild(_, _, _, _, _, _, _)

\* One pass of the for loop of pprint over node.values: first is the text of
\* child i, second the text of child i + 1 (read for a map only).
pprintChild(node, i, vals, indent, multiline, first, second) ==
  LET sep == IF Len(vals) > 0 THEN (IF multiline THEN Spaces(indent) ELSE <<" ">>) ELSE <<>>
      isMap == node.type = "EdnMap"
      last == IF isMap THEN i + 1 ELSE i
      nl == IF multiline /\ last # Len(node.values) THEN <<NL>> ELSE <<>>
  IN IF first = PprintUB THEN PprintUB
     ELSE IF isMap /\ i + 1 > Len(node.values) THEN PprintUB
     ELSE IF isMap /\ second = PprintUB THEN PprintUB
     ELSE pprintValues(node, last + 1,
                       vals \o sep \o first \o (IF isMap THEN <<" ">> \o second ELSE <<>>) \o nl,
                       indent, multiline)

\* The for loop of pprint over node.values, from child i on, vals built so far.
pprintValues(node, i, vals, indent, multiline) ==
  IF i > Len(node.values) THEN vals
  ELSE pprintChild(node, i, vals, indent, multiline,
                   pprint(node.values[i], indent + 1, multiline),
                   IF node.type = "EdnMap" /\ i + 1 <= Len(node.values)
                   THEN pprint(node.values[i + 1], 1, multiline)
                   ELSE PprintUB)

\* `#` front() ` ` back() of a tagged node.
pprintTagged(front, back) ==
  IF front = PprintUB \/ back = PprintUB THEN PprintUB
  ELSE <<"#">> \o front \o <<" ">> \o back

\* The brackets pprint puts around the children of a collection.
pprintWrap(type, vals) ==
  IF vals = PprintUB THEN PprintUB
  ELSE IF type = "EdnList" THEN <<"(">> \o vals \o <<")">>
  ELSE IF type = "EdnVector" THEN <<"[">> \o vals \o <<"]">>
  ELSE IF type = "EdnMap" THEN <<"{">> \o vals \o <<"}">>
  ELSE <<"#", "{">> \o vals \o <<"}">>

pprint(node, indent, multiline) ==
  IF node.type \in {"EdnList", "EdnSet", "EdnVector", "EdnMap"}
  THEN pprintWrap(node.type, pprintValues(node, 1, <<>>, indent, multiline))
  ELSE IF node.type = "EdnTagged" THEN
    IF node.values = <<>> THEN PprintUB   \* front() of an empty list
    ELSE pprintTagged(pprint(node.values[1], indent, multiline),
                      pprint(node.values[Len(node.values)], indent, multiline))
  ELSE IF node.type = "EdnString" THEN <<QUOTE>> \o escapeQuotes(node.value) \o <<QUOTE>>
  ELSE node.value

(***************************************************************************)
(* engine.cpp: the words of the source language, the backend types and     *)
(* the numbers of the model.  A backend type is one of "i1", "i8", "i16",  *)
(* "i32", "i64", "float", "double", "void", "ptr".  An integer is kept as  *)
(* the signed value of its bits; a floating point number as the fraction   *)
(* n / d in lowest terms (the sources of the model use numbers that float  *)
(* and double hold exactly, so that no rounding takes place).              *)
(***************************************************************************)
\* The string literals of engine.cpp, as byte sequences.
Str(s) ==
  CASE s = "int8" -> <<"i", "n", "t", "8">>
    [] s = "int16" -> <<"i", "n", "t", "1", "6">>
    [] s = "int32" -> <<"i", "n", "t", "3", "2">>
    [] s = "int64" -> <<"i", "n", "t", "6", "4">>
    [] s = "float32" -> <<"f", "l", "o", "a", "t", "3", "2">>
    [] s = "float64" -> <<"f", "l", "o", "a", "t", "6", "4">>
    [] s = "void" -> <<"v", "o", "i", "d">>
    [] s = "double" -> <<"d", "o", "u", "b", "l", "e">>
    [] s = "else" -> <<"e", "l", "s", "e">>
    [] s = "ref" -> <<"r", "e", "f">>
    [] s = "deref" -> <<"d", "e", "r", "e", "f">>
    [] s = "defn" -> <<"d", "e", "f", "n">>
    [] s = "cond" -> <<"c", "o", "n", "d">>
    [] s = "put" -> <<"p", "u", "t">>
    [] s = "while" -> <<"w", "h", "i", "l", "e">>
    [] s = "struct" -> <<"s", "t", "r", "u", "c", "t">>
    [] s = "main" -> <<"m", "a", "i", "n">>
    [] s = "calc" -> <<"c", "a", "l", "c">>
    [] s = "==" -> <<"=", "=">>
    [] s = "!=" -> <<"!", "=">>
    [] s = "<=" -> <<"<", "=">>
    [] s = ">=" -> <<">", "=">>

\* getLLVMType(node, typeStr, builder): the backend type, or "throw" for the
\* YeetCompileException "Unknown type string for LLVM type".
RECURSIVE getLLVMType(_)
getLLVMType(typeStr) ==
  IF typeStr # <<>> /\ typeStr[Len(typeStr)] = "*"
  THEN (IF getLLVMType(SubSeq(typeStr, 1, Len(typeStr) - 1)) = "throw" THEN "throw" ELSE "ptr")
  ELSE IF typeStr = Str("int8") THEN "i8"
  ELSE IF typeStr = Str("int16") THEN "i16"
  ELSE IF typeStr = Str("int32") THEN "i32"
  ELSE IF typeStr = Str("int64") THEN "i64"
  ELSE IF typeStr = Str("float32") THEN "float"
  ELSE IF typeStr = Str("float64") THEN "double"
  ELSE IF typeStr = Str("void") THEN "void"
  ELSE "throw"

isIntegerTy(ty) == ty \in {"i1", "i8", "i16", "i32", "i64"}
isFloatingPointTy(ty) == ty \in {"float", "double"}

\* Type::getIntegerBitWidth of an integer type.
getIntegerBitWidth(ty) ==
  CASE ty = "i1" -> 1 [] ty = "i8" -> 8 [] ty = "i16" -> 16 [] ty = "i32" -> 32 [] ty = "i64" -> 64

\* The store size and the alignment of a backend type, in bytes.
SizeOf(ty) ==
  CASE ty = "i1" -> 1 [] ty = "i8" -> 1 [] ty = "i16" -> 2 [] ty = "i32" -> 4
    [] ty = "i64" -> 8 [] ty = "float" -> 4 [] ty = "double" -> 8 [] ty = "ptr" -> 8
    [] OTHER -> 0

\* The signed value of the low w bits of x.  The numbers of the model stay
\* below 2^31 in magnitude, so that nothing wraps at 32 or 64 bits.
Wrap(w, x) ==
  IF w >= 31 THEN x
  ELSE IF x % (2 ^ w) >= 2 ^ (w - 1) THEN (x % (2 ^ w)) - 2 ^ w ELSE x % (2 ^ w)

Abs(x) == IF x < 0 THEN -x ELSE x

RECURSIVE Gcd(_, _)
Gcd(a, b) == IF b = 0 THEN a ELSE Gcd(b, a % b)

\* The fraction n / d in lowest terms, d > 0; d = 0 stands for inf and nan.
Frac(n, d) ==
  IF d = 0 THEN [n |-> IF n > 0 THEN 1 ELSE IF n < 0 THEN -1 ELSE 0, d |-> 0]
  ELSE [n |-> (IF d < 0 THEN -n ELSE n) \div Gcd(Abs(n), Abs(d)),
        d |-> Abs(d) \div Gcd(Abs(n), Abs(d))]

\* The number of leading decimal digits of s, and their value.
DigitValue(c) ==
  CASE c = "0" -> 0 [] c = "1" -> 1 [] c = "2" -> 2 [] c = "3" -> 3 [] c = "4" -> 4
    [] c = "5" -> 5 [] c = "6" -> 6 [] c = "7" -> 7 [] c = "8" -> 8 [] c = "9" -> 9

RECURSIVE DecimalValue(_, _)
DecimalValue(s, acc) ==
  IF s = <<>> THEN acc ELSE DecimalValue(Tail(s), 10 * acc + DigitValue(Head(s)))

\* s without its leading sign, and the sign.
Unsigned(s) == IF s # <<>> /\ s[1] \in {"+", "-"} THEN Tail(s) ELSE s
SignOf(s) == IF s # <<>> /\ s[1] = "-" THEN -1 ELSE 1

\* What a conversion of a text to a number returns (exc = "") or throws.
Parsed(v) == [exc |-> "", v |-> v]
NotParsed(exc) == [exc |-> exc, v |-> 0]

\* std::stoi(s): the value of the longest prefix that is a signed decimal
\* number, or the exception it throws (std::out_of_range from ten digits on:
\* the model has no number between 10^9 and 2^31).
stoiDigits(sign, digits) ==
  IF digits = <<>> THEN NotParsed("std::invalid_argument")
  ELSE IF Len(digits) > 9 THEN NotParsed("std::out_of_range")
  ELSE Parsed(sign * DecimalValue(digits, 0))

stoi(s) == stoiDigits(SignOf(s), SubSeq(Unsigned(s), 1, strspn(Unsigned(s), Digits)))

\* std::stod(s) (and std::stof): the value of the longest prefix of the form
\* sign, digits, optional period and digits, optional exponent, or the
\* exception it throws.
stodExp(n, d, rem) ==
  IF rem # <<>> /\ rem[1] \in {"e", "E"} /\ strspn(Unsigned(Tail(rem)), Digits) > 0
  THEN (IF SignOf(Tail(rem)) > 0
        THEN Frac(n * 10 ^ DecimalValue(SubSeq(Unsigned(Tail(rem)), 1,
                                               strspn(Unsigned(Tail(rem)), Digits)), 0), d)
        ELSE Frac(n, d * 10 ^ DecimalValue(SubSeq(Unsigned(Tail(rem)), 1,
                                                  strspn(Unsigned(Tail(rem)), Digits)), 0)))
  ELSE Frac(n, d)

stodMantissa(sign, whole, frac, rem) ==
  IF whole = <<>> /\ frac = <<>> THEN NotParsed("std::invalid_argument")
  ELSE Parsed(stodExp(sign * (DecimalValue(whole, 0) * 10 ^ Len(frac) + DecimalValue(frac, 0)),
                      10 ^ Len(frac), rem))

stodFraction(sign, whole, rest) ==
  IF rest # <<>> /\ rest[1] = "."
  THEN stodMantissa(sign, whole, SubSeq(Tail(rest), 1, strspn(Tail(rest), Digits)),
                    SubSeq(Tail(rest), strspn(Tail(rest), Digits) + 1, Len(Tail(rest))))
  ELSE stodMantissa(sign, whole, <<>>, rest)

stodUnsigned(sign, s) ==
  stodFraction(sign, SubSeq(s, 1, strspn(s, Digits)), SubSeq(s, strspn(s, Digits) + 1, Len(s)))

stod(s) == stodUnsigned(SignOf(s), Unsigned(s))

(***************************************************************************)
(* engine.cpp: the lowerer.  A value (of type llvm::Value) is null, a      *)
(* constant, the result of the instruction with a given index in the       *)
(* module, or an argument of the function it is used in.  A lowering       *)
(* yields the engine state after it, the value it returns, and the         *)
(* exception it throws (type "" when none).                                *)
(***************************************************************************)
Null == [k |-> "null", ty |-> "none", v |-> 0]
Const(ty, v) == [k |-> "const", ty |-> ty, v |-> v]
Reg(ty, id) == [k |-> "reg", ty |-> ty, v |-> id]
Arg(ty, i) == [k |-> "arg", ty |-> ty, v |-> i]

EmptyMap == [x \in {} |-> 0]
Put(map, key, value) == (key :> value) @@ map

\* A function of the module: its return type, the types of its parameters
\* and its entry block.
Function(ret, args, entry) == [ret |-> ret, args |-> args, entry |-> entry]
EntryBlock == 1

\* The members of Engine after llvmSymbolTable.clear() and the creation of
\* calc: the tables, the functions of the module (calc, of type double()),
\* the basic blocks (each with its function), the instructions of the
\* module in the order of their creation (each with its block), the block
\* the builder inserts into, and g, the width getIntegerBitWidth reads from
\* a type that is no integer type.
EngineInit(g) ==
  [llvmSymbolTable |-> EmptyMap, llvmStructTypes |-> EmptyMap, yeetStructTable |-> EmptyMap,
   yeetFunctionTable |-> EmptyMap, yeetFunctionReturnTypes |-> EmptyMap,
   functions |-> (Str("calc") :> Function("double", <<>>, EntryBlock)),
   blocks |-> <<[fn |-> Str("calc"), name |-> "entry"]>>,
   cur |-> EntryBlock, code |-> <<>>, g |-> g]

NoExc == [type |-> "", msg |-> "", line |-> 0, column |-> 0, nodeStr |-> <<>>]
Res(st, val) == [st |-> st, val |-> val, exc |-> NoExc]
Failed(r) == r.exc.type # ""

\* throw of a const char*, a std::string or an exception of the library;
\* type "UB" stands for undefined behaviour.
Exc(st, type, msg) ==
  [st |-> st, val |-> Null,
   exc |-> [type |-> type, msg |-> msg, line |-> 0, column |-> 0, nodeStr |-> <<>>]]

\* throw YeetCompileException(node, msg, ...)
YeetCompileException(st, node, msg) ==
  [st |-> st, val |-> Null,
   exc |-> [type |-> "YeetCompileException", msg |-> msg, line |-> node.line,
            column |-> node.column, nodeStr |-> pprint(node, 0, FALSE)]]

\* builder.Create...: the instruction is appended to the block the builder
\* inserts into.
Emit(st, op, ty, a, x) ==
  Res([st EXCEPT !.code = Append(@, [op |-> op, ty |-> ty, a |-> a, x |-> x, b |-> st.cur])],
      Reg(ty, Len(st.code) + 1))

\* BasicBlock::Create(context, name, function): the new block is the last.
CreateBlock(st, fn, name) == [st EXCEPT !.blocks = Append(@, [fn |-> fn, name |-> name])]
\* builder.SetInsertPoint(block)
SetInsertPoint(st, block) == [st EXCEPT !.cur = block]
\* builder.GetInsertBlock()->getParent()
CurrentFunction(st) == st.blocks[st.cur].fn

\* builder.CreateCast: no instruction when the value has the type already.
EmitCast(st, op, v, ty) == IF v.ty = ty THEN Res(st, v) ELSE Emit(st, op, ty, <<v>>, 0)

\* node.metadata["type"], NoMeta when there is none.
NoMeta == <<"">>
typeMeta(node) ==
  IF \E p \in node.metadata : p[1] = "type"
  THEN (CHOOSE p \in node.metadata : p[1] = "type")[2]
  ELSE NoMeta

constantInt(st, node, llvmType, n) ==
  IF llvmType = "throw" THEN YeetCompileException(st, node, "Unknown type string for LLVM type")
  ELSE IF n.exc # "" THEN Exc(st, n.exc, "stoi")
  ELSE IF ~isIntegerTy(llvmType) THEN Exc(st, "UB", "ConstantInt::get of a type that is no integer")
  ELSE Res(st, Const(llvmType, Wrap(getIntegerBitWidth(llvmType), n.v)))

codegenInt(node, st) ==
  constantInt(st, node,
              IF typeMeta(node) = NoMeta THEN "i32" ELSE getLLVMType(typeMeta(node)),
              stoi(node.value))

constantFP(st, ty, x) == IF x.exc # "" THEN Exc(st, x.exc, "stod") ELSE Res(st, Const(ty, x.v))

codegenFloat(node, st) ==
  IF typeMeta(node) = NoMeta THEN constantFP(st, "double", stod(node.value))
  ELSE IF typeMeta(node) = Str("float32") THEN constantFP(st, "float", stod(node.value))
  ELSE IF typeMeta(node) = Str("float64") THEN constantFP(st, "double", stod(node.value))
  ELSE Exc(st, "std::string", "Unknown float type: ")

codegenSymbol(node, st) ==
  IF node.value = Str("else") THEN Res(st, Const("i32", 1))
  ELSE IF node.value \notin DOMAIN st.llvmSymbolTable
  THEN YeetCompileException(st, node, "Unknown variable")
  ELSE IF getLLVMType(st.llvmSymbolTable[node.value].second) = "throw"
  THEN YeetCompileException(st, node, "Unknown type string for LLVM type")
  ELSE Emit(st, "load", getLLVMType(st.llvmSymbolTable[node.value].second),
            <<st.llvmSymbolTable[node.value].first>>, 0)

\* The operands of an instruction that are no values: the struct type of an
\* alloca or getelementptr (the list of its field types) and the field index.
NoX == [layout |-> <<>>, idx |-> 0]
CreateAlloca(st, layout) == Emit(st, "alloca", "ptr", <<>>, [layout |-> layout, idx |-> 0])
CreateStructGEP(st, layout, ptr, idx) ==
  IF idx >= Len(layout) THEN Exc(st, "UB", "CreateStructGEP past the last field")
  ELSE Emit(st, "gep", "ptr", <<ptr>>, [layout |-> layout, idx |-> idx])
\* builder.CreateStore(value, ptr) reads value->getType().
CreateStore(st, value, ptr) ==
  IF value.k = "null" THEN Exc(st, "UB", "CreateStore of a null value")
  ELSE Emit(st, "store", "void", <<value, ptr>>, NoX)
CreateStoreAt(value, gep) == IF Failed(gep) THEN gep ELSE CreateStore(gep.st, value, gep.val)
CreateLoadAt(ty, gep) == IF Failed(gep) THEN gep ELSE Emit(gep.st, "load", ty, <<gep.val>>, NoX)

RECURSIVE codegenExpr(_, _)
RECURSIVE codegenList(_, _)
RECURSIVE codegenSequence(_, _, _, _)
RECURSIVE codegenFieldValues(_, _, _, _)
RECURSIVE storeFields(_, _, _, _, _)

\* The loop of codegenAssignStruct over the field values (val is the vector).
fieldValuesNext(nodes, i, vals, r) ==
  IF Failed(r) THEN r ELSE codegenFieldValues(nodes, i + 1, r.st, Append(vals, r.val))
codegenFieldValues(nodes, i, st, vals) ==
  IF i > Len(nodes) THEN Res(st, vals)
  ELSE fieldValuesNext(nodes, i, vals, codegenExpr(nodes[i], st))

\* The loop of codegenAssignStruct that stores fieldValues[i] at field i.
storeFieldsNext(layout, ptr, vals, i, r) ==
  IF Failed(r) THEN r ELSE storeFields(r.st, layout, ptr, vals, i + 1)
storeFields(st, layout, ptr, vals, i) ==
  IF i > Len(vals) THEN Res(st, ptr)
  ELSE storeFieldsNext(layout, ptr, vals, i,
                       CreateStoreAt(vals[i], CreateStructGEP(st, layout, ptr, i - 1)))

assignStructBind(target, structName, r) ==
  IF Failed(r) THEN r
  ELSE Res([r.st EXCEPT !.llvmSymbolTable =
                   Put(@, target, [first |-> r.val, second |-> structName])], r.val)
assignStructAlloca(target, structName, layout, vals, a) ==
  assignStructBind(target, structName, storeFields(a.st, layout, a.val, vals, 1))
assignStructValues(target, structName, r) ==
  IF Failed(r) THEN r
  ELSE assignStructAlloca(target, structName, r.st.llvmStructTypes[structName], r.val,
                          CreateAlloca(r.st, r.st.llvmStructTypes[structName]))

\* (= target (StructName (Field1 Field2 ...)))
codegenAssignStruct(node, st) ==
  IF node.values[2].type # "EdnSymbol"
  THEN YeetCompileException(st, node.values[2], "Expected Struct assignment target to be a symbol")
  ELSE IF node.values[3].type # "EdnList" \/ Len(node.values[3].values) < 2
  THEN YeetCompileException(st, node.values[3], "Expected Struct assignment to be of form (StructName (Field1 Field2 ...))")
  ELSE IF node.values[3].values[1].type # "EdnSymbol"
  THEN YeetCompileException(st, node.values[3].values[1], "Expected Struct name to be a symbol")
  ELSE IF node.values[3].values[1].value \notin DOMAIN st.llvmStructTypes
  THEN YeetCompileException(st, node.values[3].values[1], "Struct type not defined")
  ELSE IF node.values[3].values[2].type # "EdnList"
  THEN YeetCompileException(st, node.values[3].values[2], "Expected Struct fields")
  ELSE assignStructValues(node.values[2].value, node.values[3].values[1].value,
                          codegenFieldValues(node.values[3].values[2].values, 1, st, <<>>))

\* The search of a field by name: the index (from 0) of the first field with
\* the name, Len(fields) when there is none.
fieldIndex(fields, fieldName) ==
  IF \E i \in 1..Len(fields) : fields[i][1] = fieldName
  THEN (CHOOSE i \in 1..Len(fields) :
          fields[i][1] = fieldName /\ \A j \in 1..(i - 1) : fields[j][1] # fieldName) - 1
  ELSE Len(fields)

\* The checks shared by codegenAssignStructField and codegenStructAccess on
\* (. target :field): "" when all pass, else the message; bad is the node
\* the exception names.
fieldAccessError(st, target, field) ==
  IF target.value \notin DOMAIN st.llvmSymbolTable
  THEN [msg |-> "Struct target not defined", bad |-> target]
  ELSE IF st.llvmSymbolTable[target.value].second \notin DOMAIN st.yeetStructTable
  THEN [msg |-> "Struct not defined", bad |-> target]
  ELSE IF st.llvmSymbolTable[target.value].second \notin DOMAIN st.llvmStructTypes
  THEN [msg |-> "Struct type not defined", bad |-> target]
  ELSE IF fieldIndex(st.yeetStructTable[st.llvmSymbolTable[target.value].second],
                     Substr(field.value, 1, Npos))
          = Len(st.yeetStructTable[st.llvmSymbolTable[target.value].second])
  THEN [msg |-> "Field not a member of struct", bad |-> field]
  ELSE [msg |-> "", bad |-> field]

assignFieldStore(node, structName, ptr, idx, r) ==
  IF Failed(r) THEN r
  ELSE IF r.val.k = "null" THEN Exc(r.st, "UB", "getType of a null value")
  ELSE IF r.val.ty # getLLVMType(r.st.yeetStructTable[structName][idx + 1][2])
  THEN YeetCompileException(r.st, node.values[3], "Value type mismatch for field")
  ELSE CreateStoreAt(r.val, CreateStructGEP(r.st, r.st.llvmStructTypes[structName], ptr, idx))

assignFieldChecked(node, st, target, field, err) ==
  IF err.msg # "" THEN YeetCompileException(st, err.bad, err.msg)
  ELSE assignFieldStore(node, st.llvmSymbolTable[target.value].second,
                        st.llvmSymbolTable[target.value].first,
                        fieldIndex(st.yeetStructTable[st.llvmSymbolTable[target.value].second],
                                   Substr(field.value, 1, Npos)),
                        codegenExpr(node.values[3], st))

\* (= (. target :field) value); the value returned is the store instruction.
codegenAssignStructField(node, st) ==
  IF node.values[2].type # "EdnList" \/ Len(node.values[2].values) # 3
  THEN YeetCompileException(st, node.values[2], "Expected Struct field assignment to be of form (= (. target :field) value)")
  ELSE IF node.values[2].values[1].type # "EdnSymbol" \/ node.values[2].values[1].value # <<".">>
  THEN YeetCompileException(st, node.values[2].values[1], "Expected Struct field access to start with '.'")
  ELSE IF node.values[2].values[2].type # "EdnSymbol"
  THEN YeetCompileException(st, node.values[2].values[2], "Expected Struct field access target to be a symbol")
  ELSE IF node.values[2].values[3].type # "EdnKeyword"
  THEN YeetCompileException(st, node.values[2].values[3], "Expected Struct field to be a keyword")
  ELSE assignFieldChecked(node, st, node.values[2].values[2], node.values[2].values[3],
                          fieldAccessError(st, node.values[2].values[2], node.values[2].values[3]))

structAccessChecked(node, st, target, field, err) ==
  IF err.msg # "" THEN YeetCompileException(st, err.bad, err.msg)
  ELSE IF getLLVMType(st.yeetStructTable[st.llvmSymbolTable[target.value].second]
                        [fieldIndex(st.yeetStructTable[st.llvmSymbolTable[target.value].second],
                                    Substr(field.value, 1, Npos)) + 1][2]) = "throw"
  THEN YeetCompileException(st, node, "Unknown type string for LLVM type")
  ELSE CreateLoadAt(getLLVMType(st.yeetStructTable[st.llvmSymbolTable[target.value].second]
                        [fieldIndex(st.yeetStructTable[st.llvmSymbolTable[target.value].second],
                                    Substr(field.value, 1, Npos)) + 1][2]),
                    CreateStructGEP(st, st.llvmStructTypes[st.llvmSymbolTable[target.value].second],
                                    st.llvmSymbolTable[target.value].first,
                                    fieldIndex(st.yeetStructTable[st.llvmSymbolTable[target.value].second],
                                               Substr(field.value, 1, Npos))))

\* (. target :field)
codegenStructAccess(node, st) ==
  IF Len(node.values) # 3
  THEN YeetCompileException(st, node, "Struct field access must be of form (. target :field)")
  ELSE IF node.values[1].type # "EdnSymbol" \/ node.values[1].value # <<".">>
  THEN YeetCompileException(st, node.values[1], "Struct field access must start with '.'")
  ELSE IF node.values[2].type # "EdnSymbol"
  THEN YeetCompileException(st, node.values[2], "Struct field access target must be a symbol")
  ELSE IF node.values[3].type # "EdnKeyword"
  THEN YeetCompileException(st, node.values[3], "Struct field must be a keyword")
  ELSE structAccessChecked(node, st, node.values[2], node.values[3],
                           fieldAccessError(st, node.values[2], node.values[3]))

\* The value of codegenAssignLiteral is the value stored.
storeValue(st, value, ptr) ==
  IF value.k = "null" THEN Exc(st, "UB", "CreateStore of a null value")
  ELSE Res(Emit(st, "store", "void", <<value, ptr>>, NoX).st, value)

assignLiteralBind(name, typeStr, value, a) ==
  storeValue([a.st EXCEPT !.llvmSymbolTable = Put(@, name, [first |-> a.val, second |-> typeStr])],
             value, a.val)

assignLiteralLvalue(targetNode, value, r) ==
  IF Failed(r) THEN r
  ELSE IF r.val.k = "null" \/ r.val.ty # "ptr"
  THEN YeetCompileException(r.st, targetNode, "Assignment target list did not produce a pointer")
  ELSE storeValue(r.st, value, r.val)

assignLiteralTarget(node, st, typeStr, llvmType, targetNode, value) ==
  IF llvmType = "throw" THEN YeetCompileException(st, node, "Unknown type string for LLVM type")
  ELSE IF targetNode.type = "EdnSymbol" THEN
    IF targetNode.value \notin DOMAIN st.llvmSymbolTable THEN
      IF llvmType = "void" THEN Exc(st, "UB", "CreateAlloca of void")
      ELSE assignLiteralBind(targetNode.value, typeStr, value, CreateAlloca(st, <<llvmType>>))
    ELSE storeValue(st, value, st.llvmSymbolTable[targetNode.value].first)
  ELSE IF targetNode.type = "EdnList"
  THEN assignLiteralLvalue(targetNode, value, codegenList(targetNode, st))
  ELSE YeetCompileException(st, targetNode, "Assignment target must be a symbol or lvalue expression (list)")

assignLiteralStore(node, typeStr, targetNode, r) ==
  IF Failed(r) THEN r
  ELSE assignLiteralTarget(node, r.st, typeStr, getLLVMType(typeStr), targetNode, r.val)

assignLiteralValue(st, typeStr, valueNode) ==
  IF valueNode.type \in {"EdnInt", "EdnFloat"}
  THEN codegenExpr([valueNode EXCEPT !.metadata =
                      {p \in @ : p[1] # "type"} \cup {<<"type", typeStr>>}], st)
  ELSE IF valueNode.type = "EdnSymbol" THEN codegenSymbol(valueNode, st)
  ELSE IF valueNode.type = "EdnList" THEN codegenList(valueNode, st)
  ELSE YeetCompileException(st, valueNode, "Expected value to be an int, float, symbol, or list.")

\* (= target :type value)
codegenAssignLiteral(node, st) ==
  IF node.values[3].type # "EdnKeyword"
  THEN YeetCompileException(st, node.values[3], "Expected type keyword")
  ELSE assignLiteralStore(node, Substr(node.values[3].value, 1, Npos), node.values[2],
                          assignLiteralValue(st, Substr(node.values[3].value, 1, Npos),
                                             node.values[4]))

codegenAssign(node, st) ==
  IF Len(node.values) < 3 THEN YeetCompileException(st, node, "Expected target and value")
  ELSE IF Len(node.values) = 3 /\ node.values[2].type = "EdnSymbol"
  THEN codegenAssignStruct(node, st)
  ELSE IF Len(node.values) = 3 /\ node.values[2].type = "EdnList"
  THEN codegenAssignStructField(node, st)
  ELSE IF Len(node.values) = 4 THEN codegenAssignLiteral(node, st)
  ELSE YeetCompileException(st, node, "Assignment target must be a symbol or field access")

\* (ref x): the slot of x.
codegenReference(node, st) ==
  IF Len(node.values) # 2
  THEN YeetCompileException(st, node, "Reference operator expects one argument")
  ELSE IF node.values[2].type # "EdnSymbol"
  THEN YeetCompileException(st, node.values[2], "Reference operator expects a symbol argument")
  ELSE IF node.values[2].value \notin DOMAIN st.llvmSymbolTable
  THEN YeetCompileException(st, node.values[2], "Unknown variable for reference")
  ELSE Res(st, st.llvmSymbolTable[node.values[2].value].first)

\* An argument of defn: (name :type) or name.
isTypedName(n) ==
  /\ n.type = "EdnList"
  /\ Len(n.values) = 2
  /\ n.values[1].type = "EdnSymbol"
  /\ n.values[2].type = "EdnKeyword"
typedName(n) == <<n.values[1].value, Substr(n.values[2].value, 1, Npos)>>

\* (defn :ret name (args...) body...): the tables only, no value.
codegenDefn(node, st) ==
  IF Len(node.values) < 5
  THEN YeetCompileException(st, node, "defn requires a return type, name, arg list, and body")
  ELSE IF node.values[2].type # "EdnKeyword"
  THEN YeetCompileException(st, node.values[2], "defn: first argument must be return type keyword")
  ELSE IF node.values[3].type # "EdnSymbol"
  THEN YeetCompileException(st, node.values[3], "defn: function name must be a symbol")
  ELSE IF node.values[4].type # "EdnList"
  THEN YeetCompileException(st, node.values[4], "defn: argument list must be a list")
  ELSE IF \E i \in 1..Len(node.values[4].values) :
            ~isTypedName(node.values[4].values[i]) /\ node.values[4].values[i].type # "EdnSymbol"
  THEN YeetCompileException(st,
         node.values[4].values[CHOOSE i \in 1..Len(node.values[4].values) :
            /\ ~isTypedName(node.values[4].values[i]) /\ node.values[4].values[i].type # "EdnSymbol"
            /\ \A j \in 1..(i - 1) : isTypedName(node.values[4].values[j])
                                     \/ node.values[4].values[j].type = "EdnSymbol"],
         "defn: all arguments must be symbols or (name :type)")
  ELSE Res([st EXCEPT
             !.yeetFunctionTable =
                Put(@, node.values[3].value,
                    [first |-> [i \in 1..Len(node.values[4].values) |->
                                  IF isTypedName(node.values[4].values[i])
                                  THEN typedName(node.values[4].values[i])
                                  ELSE <<node.values[4].values[i].value, Str("int32")>>],
                     second |-> [node EXCEPT !.values = SubSeq(@, 5, Len(@))]]),
             !.yeetFunctionReturnTypes =
                Put(@, node.values[3].value, Substr(node.values[2].value, 1, Npos))],
           Null)

\* defineStructType without the check of line 853.
defineStructTypeUnchecked(node, fields, st) ==
  IF \E i \in 1..Len(fields) : getLLVMType(fields[i][2]) = "throw"
  THEN YeetCompileException([st EXCEPT !.yeetStructTable = Put(@, node.value, fields)],
                            node, "Unknown type string for LLVM type")
  ELSE IF \E i \in 1..Len(fields) : getLLVMType(fields[i][2]) = "void"
  THEN Exc([st EXCEPT !.yeetStructTable = Put(@, node.value, fields)],
           "UB", "StructType::create with a void element")
  ELSE Res([st EXCEPT !.yeetStructTable = Put(@, node.value, fields),
                      !.llvmStructTypes =
                         Put(@, node.value, [i \in 1..Len(fields) |-> getLLVMType(fields[i][2])])],
           Null)

\* defineStructType: yeetStructTable is written before the field types are
\* resolved; EdnNode{} is value-initialised (type EdnNil, line and column 0).
defineStructType(node, fields, st) ==
  IF node.value \in DOMAIN st.llvmStructTypes
  THEN YeetCompileException(st, EdnNode("EdnNil", 0, 0, <<>>, <<>>), "Struct type already defined")
  ELSE IF \E i \in 1..Len(fields) : getLLVMType(fields[i][2]) = "throw"
  THEN YeetCompileException([st EXCEPT !.yeetStructTable = Put(@, node.value, fields)],
                            node, "Unknown type string for LLVM type")
  ELSE IF \E i \in 1..Len(fields) : getLLVMType(fields[i][2]) = "void"
  THEN Exc([st EXCEPT !.yeetStructTable = Put(@, node.value, fields)],
           "UB", "StructType::create with a void element")
  ELSE Res([st EXCEPT !.yeetStructTable = Put(@, node.value, fields),
                      !.llvmStructTypes =
                         Put(@, node.value, [i \in 1..Len(fields) |-> getLLVMType(fields[i][2])])],
           Null)

\* (struct name ((field1 :type1) (field2 :type2) ...))
codegenStruct(node, st) ==
  IF Len(node.values) # 3
  THEN YeetCompileException(st, node, "struct requires a name and a field list")
  ELSE IF node.values[2].type # "EdnSymbol"
  THEN YeetCompileException(st, node.values[2], "struct: name must be a symbol")
  ELSE IF node.values[3].type # "EdnList"
  THEN YeetCompileException(st, node.values[3], "struct: fields must be a list")
  ELSE IF \E i \in 1..Len(node.values[3].values) : ~isTypedName(node.values[3].values[i])
  THEN YeetCompileException(st,
         node.values[3].values[CHOOSE i \in 1..Len(node.values[3].values) :
            /\ ~isTypedName(node.values[3].values[i])
            /\ \A j \in 1..(i - 1) : isTypedName(node.values[3].values[j])],
         "struct: each field must be (name :type)")
  ELSE defineStructType(node.values[2],
                        [i \in 1..Len(node.values[3].values) |->
                           typedName(node.values[3].values[i])], st)


\* The type codegenBinop assumes for an operand, from its node alone.
operandType(n, st) ==
  IF n.type = "EdnSymbol" THEN
    IF n.value \in DOMAIN st.llvmSymbolTable THEN st.llvmSymbolTable[n.value].second
    ELSE Str("int32")
  ELSE IF n.type = "EdnFloat" THEN Str("float64")
  ELSE Str("int32")

\* Type::getIntegerBitWidth() called on any type: for a type that is no
\* integer the cast inside it is invalid and the width read is indeterminate.
bitWidthOf(ty, st) == IF isIntegerTy(ty) THEN getIntegerBitWidth(ty) ELSE st.g

Max(a, b) == IF a > b THEN a ELSE b

isComparison(op) == op \in {Str("=="), Str("!="), <<"<">>, Str("<="), <<">">>, Str(">=")}
isArithmetic(op) == op \in {<<"+">>, <<"-">>, <<"*">>, <<"/">>}

\* The instruction for op: fcmp/icmp with the predicate, or the arithmetic
\* instruction; a comparison has type i1, an arithmetic instruction the type
\* of its left operand.
binopInstr(op, isFloatOp) ==
  IF op = Str("==") THEN (IF isFloatOp THEN "fcmp ueq" ELSE "icmp eq")
  ELSE IF op = Str("!=") THEN (IF isFloatOp THEN "fcmp une" ELSE "icmp ne")
  ELSE IF op = <<"<">> THEN (IF isFloatOp THEN "fcmp ult" ELSE "icmp slt")
  ELSE IF op = Str("<=") THEN (IF isFloatOp THEN "fcmp ule" ELSE "icmp sle")
  ELSE IF op = <<">">> THEN (IF isFloatOp THEN "fcmp ugt" ELSE "icmp sgt")
  ELSE IF op = Str(">=") THEN (IF isFloatOp THEN "fcmp uge" ELSE "icmp sge")
  ELSE IF op = <<"+">> THEN (IF isFloatOp THEN "fadd" ELSE "add")
  ELSE IF op = <<"-">> THEN (IF isFloatOp THEN "fsub" ELSE "sub")
  ELSE IF op = <<"*">> THEN (IF isFloatOp THEN "fmul" ELSE "mul")
  ELSE (IF isFloatOp THEN "fdiv" ELSE "sdiv")

binopConvert(cmp) == IF Failed(cmp) THEN cmp ELSE Emit(cmp.st, "uitofp", "double", <<cmp.val>>, NoX)

binopEmit(node, op, isFloatOp, lhs, r) ==
  IF Failed(r) THEN r
  ELSE IF isComparison(op) THEN
    IF isFloatOp
    THEN binopConvert(Emit(r.st, binopInstr(op, TRUE), "i1", <<lhs, r.val>>, NoX))
    ELSE Emit(r.st, binopInstr(op, FALSE), "i1", <<lhs, r.val>>, NoX)
  ELSE IF isArithmetic(op) THEN Emit(r.st, binopInstr(op, isFloatOp), lhs.ty, <<lhs, r.val>>, NoX)
  ELSE YeetCompileException(r.st, node, "Unknown operator")

\* The cast of the right operand, after that of the left one.
binopCastRhs(node, op, isFloatOp, castRhs, castTy, rhs, l) ==
  IF Failed(l) THEN l
  ELSE binopEmit(node, op, isFloatOp, l.val,
                 IF castRhs THEN EmitCast(l.st, IF isFloatOp THEN "sitofp" ELSE "intcast", rhs, castTy)
                 ELSE Res(l.st, rhs))

binopCast(node, op, st, isFloatOp, castLhs, castRhs, castTy, lhs, rhs) ==
  IF (castLhs /\ lhs.k = "null") \/ (castRhs /\ rhs.k = "null") \/ lhs.k = "null" \/ rhs.k = "null"
  THEN Exc(st, "UB", "a null operand")
  ELSE binopCastRhs(node, op, isFloatOp, castRhs, castTy, rhs,
                    IF castLhs THEN EmitCast(st, IF isFloatOp THEN "sitofp" ELSE "intcast", lhs, castTy)
                    ELSE Res(st, lhs))

binopInt(node, op, st, lhs, rhs, lt, rt, intBitwidth) ==
  IF intBitwidth \notin {8, 16, 32, 64}
  THEN YeetCompileException(st, node, "Unsupported integer bitwidth")
  ELSE binopCast(node, op, st, FALSE,
                 getIntegerBitWidth(lt) # intBitwidth \/ ~isIntegerTy(lt),
                 getIntegerBitWidth(rt) # intBitwidth \/ ~isIntegerTy(rt),
                 IF intBitwidth = 8 THEN "i8" ELSE IF intBitwidth = 16 THEN "i16"
                 ELSE IF intBitwidth = 32 THEN "i32" ELSE "i64",
                 lhs, rhs)

binopPromote(node, op, st, lhs, rhs, lt, rt) ==
  IF lt = "throw" \/ rt = "throw"
  THEN YeetCompileException(st, node, "Unknown type string for LLVM type")
  ELSE IF isFloatingPointTy(lt) \/ isFloatingPointTy(rt)
  THEN binopCast(node, op, st, TRUE, ~isFloatingPointTy(lt), ~isFloatingPointTy(rt),
                 "double", lhs, rhs)
  ELSE binopInt(node, op, st, lhs, rhs, lt, rt, Max(bitWidthOf(lt, st), bitWidthOf(rt, st)))

binopTypes(node, lhs, r) ==
  IF Failed(r) THEN r
  ELSE binopPromote(node, node.values[1].value, r.st, lhs, r.val,
                    getLLVMType(operandType(node.values[2], r.st)),
                    getLLVMType(operandType(node.values[3], r.st)))

binopRhs(node, l) ==
  IF Failed(l) THEN l ELSE binopTypes(node, l.val, codegenExpr(node.values[3], l.st))

\* (OP a b)
codegenBinop(node, st) ==
  IF Len(node.values) # 3 THEN YeetCompileException(st, node, "Expected two operands")
  ELSE binopRhs(node, codegenExpr(node.values[2], st))

\* A list all of whose children are lists, ints, symbols or floats, with more
\* than one child and a list first, is a sequence of expressions.
isSequence(node) ==
  /\ \A i \in 1..Len(node.values) :
       node.values[i].type \in {"EdnList", "EdnInt", "EdnSymbol", "EdnFloat"}
  /\ Len(node.values) > 1
  /\ node.values[1].type = "EdnList"

sequenceNext(values, i, r) ==
  IF Failed(r) THEN r ELSE codegenSequence(values, i + 1, r.st, r.val)
codegenSequence(values, i, st, last) ==
  IF i > Len(values) THEN Res(st, last)
  ELSE sequenceNext(values, i, codegenExpr(values[i], st))

\* One trailing '*' of a type string stripped.
stripPointer(typeStr) ==
  IF typeStr # <<>> /\ typeStr[Len(typeStr)] = "*"
  THEN SubSeq(typeStr, 1, Len(typeStr) - 1) ELSE typeStr

\* The check of codegenDereference that the value is a pointer, and the load.
derefLoad(st, pointerNode, ptrValue, pointeeType) ==
  IF pointeeType = "throw"
  THEN YeetCompileException(st, pointerNode, "Unknown type string for LLVM type")
  ELSE IF ptrValue.k = "null" THEN Exc(st, "UB", "getType of a null value")
  ELSE IF ptrValue.ty # "ptr"
  THEN YeetCompileException(st, pointerNode, "Dereference operator expects a pointer argument")
  ELSE IF pointeeType = "void" THEN Exc(st, "UB", "CreateLoad of void")
  ELSE Emit(st, "load", pointeeType, <<ptrValue>>, NoX)

derefExpr(pointerNode, r) ==
  IF Failed(r) THEN r
  ELSE derefLoad(r.st, pointerNode, r.val,
                 IF typeMeta(pointerNode) = NoMeta THEN "i32"
                 ELSE getLLVMType(typeMeta(pointerNode)))

\* (deref p): for a symbol the pointer is the first member of its entry in
\* llvmSymbolTable (its slot, or the argument of a pointer parameter).
codegenDereference(node, st) ==
  IF Len(node.values) # 2
  THEN YeetCompileException(st, node, "Dereference operator expects one argument")
  ELSE IF node.values[2].type = "EdnSymbol" THEN
    IF node.values[2].value \notin DOMAIN st.llvmSymbolTable
    THEN YeetCompileException(st, node.values[2], "Unknown pointer variable")
    ELSE derefLoad(st, node.values[2], st.llvmSymbolTable[node.values[2].value].first,
                   getLLVMType(stripPointer(st.llvmSymbolTable[node.values[2].value].second)))
  ELSE derefExpr(node.values[2], codegenExpr(node.values[2], st))

\* codegenAssignPointer: the store through a symbol target.
putSymbol(st, targetNode, value) ==
  IF targetNode.value \notin DOMAIN st.llvmSymbolTable
  THEN YeetCompileException(st, targetNode, "Unknown variable for pointer assignment")
  ELSE IF getLLVMType(st.llvmSymbolTable[targetNode.value].second) = "throw"
  THEN YeetCompileException(st, targetNode, "Unknown type string for LLVM type")
  ELSE IF getLLVMType(st.llvmSymbolTable[targetNode.value].second) # "ptr"
  THEN YeetCompileException(st, targetNode, "Variable is not a pointer type")
  ELSE storeValue(st, value, st.llvmSymbolTable[targetNode.value].first)

putLvalue(targetNode, value, r) ==
  IF Failed(r) THEN r
  ELSE IF r.val.k = "null" \/ r.val.ty # "ptr"
  THEN YeetCompileException(r.st, targetNode, "put target did not produce a pointer")
  ELSE storeValue(r.st, value, r.val)

putTarget(node, targetNode, llvmType, r) ==
  IF Failed(r) THEN r
  ELSE IF llvmType = "throw"
  THEN YeetCompileException(r.st, node, "Unknown type string for LLVM type")
  ELSE IF targetNode.type = "EdnSymbol" THEN putSymbol(r.st, targetNode, r.val)
  ELSE IF targetNode.type = "EdnList"
  THEN putLvalue(targetNode, r.val, codegenList(targetNode, r.st))
  ELSE YeetCompileException(r.st, targetNode,
                            "put target must be a symbol or lvalue expression (list)")

putValue(st, typeStr, valueNode) ==
  IF valueNode.type \in {"EdnInt", "EdnFloat"}
  THEN codegenExpr([valueNode EXCEPT !.metadata =
                      {p \in @ : p[1] # "type"} \cup {<<"type", typeStr>>}], st)
  ELSE IF valueNode.type = "EdnSymbol" THEN codegenSymbol(valueNode, st)
  ELSE IF valueNode.type = "EdnList" THEN codegenList(valueNode, st)
  ELSE YeetCompileException(st, valueNode, "put expects value to be int, float, symbol, or list")

\* (put target :type value)
codegenAssignPointer(node, st) ==
  IF Len(node.values) # 4
  THEN YeetCompileException(st, node, "put expects target, type, and value")
  ELSE IF node.values[3].type # "EdnKeyword"
  THEN YeetCompileException(st, node.values[3], "put expects type keyword")
  ELSE putTarget(node, node.values[2], getLLVMType(Substr(node.values[3].value, 1, Npos)),
                 putValue(st, Substr(node.values[3].value, 1, Npos), node.values[4]))

\* The operands of a branch, a phi and a call that are no values: the target
\* blocks, the blocks of the incoming values, the called function.
Targets(blocks) == [targets |-> blocks]
CreateBr(st, block) == Emit(st, "br", "void", <<>>, Targets(<<block>>)).st
CreateCondBr(st, c, thenBB, elseBB) ==
  Emit(st, "condbr", "void", <<c>>, Targets(<<thenBB, elseBB>>)).st

\* (while test body): the loop's value is the constant 0.0.
whileBody(condBB, afterBB, r) ==
  IF Failed(r) THEN r
  ELSE Res(SetInsertPoint(CreateBr(r.st, condBB), afterBB), Const("double", Frac(0, 1)))

whileBranch(node, condBB, c) ==
  whileBody(condBB, condBB + 2,
            codegenExpr(node.values[3],
                        SetInsertPoint(CreateCondBr(c.st, c.val, condBB + 1, condBB + 2),
                                       condBB + 1)))

whileTest(node, condBB, r) ==
  IF Failed(r) THEN r
  ELSE IF r.val.k = "null" THEN Exc(r.st, "UB", "getType of a null value")
  ELSE IF isFloatingPointTy(r.val.ty)
  THEN whileBranch(node, condBB,
                   Emit(r.st, "fcmp one", "i1", <<r.val, Const(r.val.ty, Frac(0, 1))>>, NoX))
  ELSE IF isIntegerTy(r.val.ty)
  THEN whileBranch(node, condBB,
                   Emit(r.st, "icmp ne", "i1", <<r.val, Const(r.val.ty, 0)>>, NoX))
  ELSE Exc(r.st, "UB", "ConstantInt::get of a type that is no integer")

\* The blocks while.cond, while.body, while.after are the last three.
whileBlocks(st, fn) ==
  CreateBlock(CreateBlock(CreateBlock(st, fn, "while.cond"), fn, "while.body"),
              fn, "while.after")

\* codegenWhile with the branch before the loop to the body block: a
\* post-test loop.
codegenWhilePostTest(node, st) ==
  IF Len(node.values) # 3
  THEN YeetCompileException(st, node, "while requires a test and a body")
  ELSE whileTest(node, Len(st.blocks) + 1,
                 codegenExpr(node.values[2],
                             SetInsertPoint(CreateBr(whileBlocks(st, CurrentFunction(st)),
                                                     Len(st.blocks) + 2),
                                            Len(st.blocks) + 1)))

codegenWhile(node, st) ==
  IF Len(node.values) # 3
  THEN YeetCompileException(st, node, "while requires a test and a body")
  ELSE whileTest(node, Len(st.blocks) + 1,
                 codegenExpr(node.values[2],
                             SetInsertPoint(CreateBr(whileBlocks(st, CurrentFunction(st)),
                                                     Len(st.blocks) + 1),
                                            Len(st.blocks) + 1)))

\* The dispatch loop of codegenCond on the clause node.values[i]: clauses are
\* the clause blocks created so far; the result holds them as its value.
isElse(n) == n.type = "EdnSymbol" /\ n.value = Str("else")
Dispatched(st, clauses) == [st |-> st, val |-> clauses, exc |-> NoExc]

RECURSIVE condDispatch(_, _, _, _, _)
condBranch(node, i, fn, clauses, t) ==
  IF Failed(t) THEN t
  ELSE IF \/ Len(node.values[i].values) = 1
          \/ (Len(node.values[i].values) = 2 /\ isElse(node.values[i].values[1]))
          \/ i = Len(node.values)
  THEN Dispatched(CreateBr(t.st, clauses[Len(clauses)]), clauses)
  ELSE IF t.val.k = "null" THEN Exc(t.st, "UB", "CreateCondBr of a null condition")
  ELSE condDispatch(node, i + 1,
                    CreateCondBr(CreateBlock(t.st, fn, "cond.clause"), t.val,
                                 clauses[Len(clauses)], Len(t.st.blocks) + 1),
                    Len(t.st.blocks) + 1, clauses)

condDispatch(node, i, st, dispatchBB, clauses) ==
  condBranch(node, i, st.blocks[dispatchBB].fn, Append(clauses, Len(st.blocks) + 1),
             IF Len(node.values[i].values) = 2
             THEN codegenExpr(node.values[i].values[1],
                              SetInsertPoint(CreateBlock(st, st.blocks[dispatchBB].fn,
                                                         "cond.clause"), dispatchBB))
             ELSE Res(SetInsertPoint(CreateBlock(st, st.blocks[dispatchBB].fn, "cond.clause"),
                                     dispatchBB), Null))

\* PHINode::Create(double, n, name, afterBB) and phi->addIncoming(v, block)
CreatePHI(st, afterBB) ==
  [st EXCEPT !.code = Append(@, [op |-> "phi", ty |-> "double", a |-> <<>>,
                                 x |-> [blocks |-> <<>>], b |-> afterBB])]
addIncoming(st, phi, v, block) ==
  [st EXCEPT !.code[phi].a = Append(@, v), !.code[phi].x.blocks = Append(@, block)]

\* The value of a clause as a double.
condCast(r) ==
  IF isIntegerTy(r.val.ty) THEN Emit(r.st, "sitofp", "double", <<r.val>>, NoX)
  ELSE IF r.val.ty = "float" THEN Emit(r.st, "fpext", "double", <<r.val>>, NoX)
  ELSE r

\* The loop that fills the clause blocks: the branch to afterBB is created in
\* the block the builder inserts into after the lowering of the expression,
\* the incoming value is recorded for the clause block.
RECURSIVE condFill(_, _, _, _, _, _)
condIncoming(node, clauses, i, afterBB, phi, c) ==
  condFill(node, clauses, i + 1,
           addIncoming(CreateBr(c.st, afterBB), phi, c.val, clauses[i]), afterBB, phi)

condClause(node, clauses, i, afterBB, phi, r) ==
  IF Failed(r) THEN r
  ELSE IF r.val.k = "null" THEN Exc(r.st, "UB", "getType of a null value")
  ELSE condIncoming(node, clauses, i, afterBB, phi, condCast(r))

condFill(node, clauses, i, st, afterBB, phi) ==
  IF i > Len(clauses) THEN Res(SetInsertPoint(st, afterBB), Reg("double", phi))
  ELSE IF node.values[i + 1].values = <<>>
  THEN Exc(st, "UB", "decrement of begin() of an empty list")
  ELSE condClause(node, clauses, i, afterBB, phi,
                  codegenExpr(node.values[i + 1].values[Len(node.values[i + 1].values)],
                              SetInsertPoint(st, clauses[i])))

condClauses(node, afterBB, d) ==
  IF Failed(d) THEN d
  ELSE condFill(node, d.val, 1, CreatePHI(d.st, afterBB), afterBB, Len(d.st.code) + 1)

\* (cond (test1 expr1) (test2 expr2) ... (else exprN))
codegenCond(node, st) ==
  IF Len(node.values) < 2
  THEN YeetCompileException(st, node, "cond requires at least one clause")
  ELSE condClauses(node, Len(st.blocks) + 1,
                   condDispatch(node, 2, CreateBlock(st, CurrentFunction(st), "cond.after"),
                                st.cur, <<>>))

\* The conversion of a call argument or of a returned value to the type ty.
convertTo(st, v, ty) ==
  IF v.ty = ty THEN Res(st, v)
  ELSE IF isFloatingPointTy(ty) /\ isIntegerTy(v.ty) THEN Emit(st, "sitofp", ty, <<v>>, NoX)
  ELSE IF isIntegerTy(ty) /\ isFloatingPointTy(v.ty) THEN Emit(st, "fptosi", ty, <<v>>, NoX)
  ELSE IF isIntegerTy(ty) /\ isIntegerTy(v.ty) THEN Emit(st, "intcast", ty, <<v>>, NoX)
  ELSE Res(st, v)

\* module.getFunction(name)
getFunction(st, name) == name \in DOMAIN st.functions

\* Function::Create and the entry block, which funcBuilder inserts into.
createFunction(st, name, llvmRetType, argTypes) ==
  SetInsertPoint(CreateBlock([st EXCEPT !.functions =
                                Put(@, name, Function(llvmRetType, argTypes,
                                                      Len(st.blocks) + 1))],
                             name, "entry"),
                 Len(st.blocks) + 1)

\* The loop over the parameters: a pointer parameter is bound to the argument
\* itself, another one to a slot the argument is stored into.  The bindings
\* go to the one llvmSymbolTable.
RECURSIVE bindArgs(_, _, _, _)
bindArgSlot(st, args, argTypes, i, slot) ==
  bindArgs([storeValue(slot.st, Arg(argTypes[i], i), slot.val).st EXCEPT
              !.llvmSymbolTable = Put(@, args[i][1], [first |-> slot.val, second |-> args[i][2]])],
           args, argTypes, i + 1)

bindArgs(st, args, argTypes, i) ==
  IF i > Len(args) THEN st
  ELSE IF argTypes[i] = "ptr"
  THEN bindArgs([st EXCEPT !.llvmSymbolTable =
                   Put(@, args[i][1], [first |-> Arg("ptr", i), second |-> args[i][2]])],
                args, argTypes, i + 1)
  ELSE bindArgSlot(st, args, argTypes, i, CreateAlloca(st, <<argTypes[i]>>))

\* The return of the function after its body; CreateRet(nullptr) is ret void.
CreateRet(c) == Res(Emit(c.st, "ret", "void", <<c.val>>, NoX).st, Null)
callReturn(retType, llvmRetType, r) ==
  IF Failed(r) THEN r
  ELSE IF retType = Str("void") \/ r.val.k = "null"
  THEN Res(Emit(r.st, "ret", "void", <<>>, NoX).st, Null)
  ELSE CreateRet(convertTo(r.st, r.val, llvmRetType))

\* The emission of the function at its first call: the body is lowered with
\* funcBuilder, the builder of the call keeps its insert point.
callEmit(st, name, llvmRetType, argTypes) ==
  [callReturn(st.yeetFunctionReturnTypes[name], llvmRetType,
              codegenSequence(st.yeetFunctionTable[name].second.values, 1,
                              bindArgs(createFunction(st, name, llvmRetType, argTypes),
                                       st.yeetFunctionTable[name].first, argTypes, 1),
                              Null))
   EXCEPT !.st.cur = st.cur, !.val = Null]

\* The loop over the arguments of the call; the result holds the converted
\* arguments as its value.
RECURSIVE callArgs(_, _, _, _, _)
callArgConverted(values, argTypes, i, acc, c) ==
  callArgs(values, argTypes, i + 1, c.st, Append(acc, c.val))

callArgNext(values, argTypes, i, acc, r) ==
  IF Failed(r) THEN r
  ELSE IF r.val.k = "null" THEN Exc(r.st, "UB", "getType of a null value")
  ELSE callArgConverted(values, argTypes, i, acc, convertTo(r.st, r.val, argTypes[i]))

callArgs(values, argTypes, i, st, acc) ==
  IF i > Len(argTypes) THEN Dispatched(st, acc)
  ELSE callArgNext(values, argTypes, i, acc, codegenExpr(values[i + 1], st))

\* builder.CreateCall(func, callArgs): the value has the return type of func.
callCreate(name, a) ==
  IF Failed(a) THEN a
  ELSE Emit(a.st, "call", a.st.functions[name].ret, a.val, [callee |-> name])

callSite(node, name, argTypes, f) ==
  IF Failed(f) THEN f
  ELSE callCreate(name, callArgs(node.values, argTypes, 1, f.st, <<>>))

callTyped(node, st, name, llvmRetType, argTypes) ==
  IF llvmRetType = "throw" \/ \E i \in 1..Len(argTypes) : argTypes[i] = "throw"
  THEN YeetCompileException(st, node, "Unknown type string for LLVM type")
  ELSE IF \E i \in 1..Len(argTypes) : argTypes[i] = "void"
  THEN Exc(st, "UB", "FunctionType::get with a void parameter")
  ELSE callSite(node, name, argTypes,
                IF getFunction(st, name) THEN Res(st, Null)
                ELSE callEmit(st, name, llvmRetType, argTypes))

\* (name arg1 arg2 ...)
codegenCall(node, st) ==
  IF node.values[1].value \notin DOMAIN st.yeetFunctionTable
  THEN Exc(st, "std::string", "Unknown function: ")
  ELSE IF Len(node.values) - 1 # Len(st.yeetFunctionTable[node.values[1].value].first)
  THEN Exc(st, "const char*", "Function argument count mismatch")
  ELSE callTyped(node, st, node.values[1].value,
                 getLLVMType(IF node.values[1].value \in DOMAIN st.yeetFunctionReturnTypes
                             THEN st.yeetFunctionReturnTypes[node.values[1].value]
                             ELSE Str("double")),
                 [i \in 1..Len(st.yeetFunctionTable[node.values[1].value].first) |->
                    getLLVMType(st.yeetFunctionTable[node.values[1].value].first[i][2])])

\* The dispatch of codegenList on the operator.
codegenOp(node, st, op) ==
  IF op = <<".">> THEN codegenStructAccess(node, st)
  ELSE IF op = Str("ref") THEN codegenReference(node, st)
  ELSE IF op = Str("deref") THEN codegenDereference(node, st)
  ELSE IF op = Str("defn") THEN codegenDefn(node, st)
  ELSE IF op = Str("cond") THEN codegenCond(node, st)
  ELSE IF op = <<"=">> THEN codegenAssign(node, st)
  ELSE IF op = Str("put") THEN codegenAssignPointer(node, st)
  ELSE IF op = Str("while") THEN codegenWhile(node, st)
  ELSE IF op = Str("struct") THEN codegenStruct(node, st)
  ELSE IF isComparison(op) \/ isArithmetic(op) THEN codegenBinop(node, st)
  ELSE IF op \in DOMAIN st.yeetFunctionTable THEN codegenCall(node, st)
  ELSE YeetCompileException(st, node.values[1], "Unknown operator")

codegenList(node, st) ==
  IF isSequence(node) THEN codegenSequence(node.values, 1, st, Null)
  ELSE IF node.values = <<>> THEN Exc(st, "UB", "front() of an empty list")
  ELSE IF node.values[1].type # "EdnSymbol"
  THEN YeetCompileException(st, node.values[1], "Expected operator symbol")
  ELSE codegenOp(node, st, node.values[1].value)

codegenExpr(node, st) ==
  IF node.type = "EdnInt" THEN codegenInt(node, st)
  ELSE IF node.type = "EdnFloat" THEN codegenFloat(node, st)
  ELSE IF node.type = "EdnSymbol" THEN codegenSymbol(node, st)
  ELSE IF node.type = "EdnList" THEN codegenList(node, st)
  ELSE YeetCompileException(st, node, "Unsupported expression")


(***************************************************************************)
(* The execution of calc by the JIT.  The instructions of a block are those *)
(* of st.code with that block, in their order; the builder's folding of    *)
(* constant operands, which changes neither a value nor a type, is left    *)
(* out.  A run-time value is an integer n (i1 true is -1), a fraction n/d, *)
(* or a pointer to byte n of the allocation a.  Instructions on operands   *)
(* of a wrong type, accesses outside an allocation, a division by zero, a  *)
(* block without a terminator and a phi without a value for the block      *)
(* control came from are undefined behaviour.                              *)
(***************************************************************************)
RtInt(ty, n) == [ty |-> ty, n |-> n, d |-> 1, a |-> 0]
RtFloat(ty, f) == [ty |-> ty, n |-> f.n, d |-> f.d, a |-> 0]
RtPtr(a, off) == [ty |-> "ptr", n |-> off, d |-> 1, a |-> a]

\* DataLayout: the offset of a field is aligned to the size of the field.
AlignTo(off, size) == ((off + size - 1) \div size) * size

RECURSIVE FieldOffsetFrom(_, _, _, _)
FieldOffsetFrom(layout, idx, i, off) ==
  IF i > Len(layout) THEN off
  ELSE IF i = idx + 1 THEN AlignTo(off, SizeOf(layout[i]))
  ELSE FieldOffsetFrom(layout, idx, i + 1, AlignTo(off, SizeOf(layout[i])) + SizeOf(layout[i]))

FieldOffset(layout, idx) == FieldOffsetFrom(layout, idx, 1, 0)

RECURSIVE MaxSizeOf(_, _)
MaxSizeOf(layout, i) ==
  IF i > Len(layout) THEN 1 ELSE Max(SizeOf(layout[i]), MaxSizeOf(layout, i + 1))

\* The allocation size of a struct (or of a scalar, a layout of one field).
AllocSize(layout) == AlignTo(FieldOffsetFrom(layout, Len(layout), 1, 0), MaxSizeOf(layout, 1))

\* The machine before the first instruction of calc: the registers and the
\* arguments of the running function, the instruction to execute next (0
\* past the end of a block), the block control came from, the frames of the
\* callers, the allocations; g is the value that bytes never written, or
\* written as another type, are read as.
Machine(g) ==
  [regs |-> EmptyMap, args |-> <<>>, pos |-> 0, prev |-> 0, stack |-> <<>>,
   allocs |-> EmptyMap, ub |-> FALSE, done |-> FALSE, ret |-> RtInt("none", 0), g |-> g]

Undefined(m) == [m EXCEPT !.ub = TRUE]
SetReg(m, i, v) == [m EXCEPT !.regs = Put(@, i, v)]

operandDefined(m, v) ==
  \/ v.k = "const"
  \/ (v.k = "reg" /\ v.v \in DOMAIN m.regs)
  \/ (v.k = "arg" /\ v.v \in 1..Len(m.args))
operand(m, v) ==
  IF v.k = "const"
  THEN (IF isFloatingPointTy(v.ty) THEN RtFloat(v.ty, v.v) ELSE RtInt(v.ty, v.v))
  ELSE IF v.k = "arg" THEN m.args[v.v]
  ELSE m.regs[v.v]

\* An indeterminate value of type ty.
Garbage(ty, g) ==
  IF isFloatingPointTy(ty) THEN RtFloat(ty, Frac(g, 1))
  ELSE IF ty = "ptr" THEN RtPtr(0, g)
  ELSE RtInt(ty, Wrap(getIntegerBitWidth(ty), g))

overlapping(stores, off, size) ==
  {k \in 1..Len(stores) :
     stores[k].off < off + size /\ off < stores[k].off + SizeOf(stores[k].val.ty)}

\* The value a load of type ty at offset off reads after the stores made:
\* that of the last store to these bytes when it has the type and the offset
\* of the load, its low bytes when it is a wider integer at the same offset
\* (little-endian target), else an indeterminate value.
loadFrom(s, off, ty, g) ==
  IF s.off = off /\ s.val.ty = ty THEN s.val
  ELSE IF s.off = off /\ isIntegerTy(s.val.ty) /\ isIntegerTy(ty) /\ SizeOf(s.val.ty) >= SizeOf(ty)
  THEN RtInt(ty, Wrap(getIntegerBitWidth(ty), s.val.n))
  ELSE Garbage(ty, g)

LoadValue(stores, off, ty, g) ==
  IF overlapping(stores, off, SizeOf(ty)) = {} THEN Garbage(ty, g)
  ELSE loadFrom(stores[CHOOSE k \in overlapping(stores, off, SizeOf(ty)) :
                         \A j \in overlapping(stores, off, SizeOf(ty)) : j <= k],
                off, ty, g)

inBounds(m, p, size) ==
  p.ty = "ptr" /\ p.a \in DOMAIN m.allocs /\ p.n >= 0 /\ p.n + size <= m.allocs[p.a].size

\* sdiv: the quotient rounded towards zero.
SDiv(a, b) == (IF (a < 0) = (b < 0) THEN 1 ELSE -1) * (Abs(a) \div Abs(b))

intArith(op, a, b) ==
  IF op = "add" THEN a + b ELSE IF op = "sub" THEN a - b
  ELSE IF op = "mul" THEN a * b ELSE SDiv(a, b)

\* Floating arithmetic on fractions; d = 0 stands for an infinity or a NaN.
floatArith(op, x, y) ==
  IF x.d = 0 \/ y.d = 0 THEN Frac(0, 0)
  ELSE IF op = "fadd" THEN Frac(x.n * y.d + y.n * x.d, x.d * y.d)
  ELSE IF op = "fsub" THEN Frac(x.n * y.d - y.n * x.d, x.d * y.d)
  ELSE IF op = "fmul" THEN Frac(x.n * y.n, x.d * y.d)
  ELSE IF y.n < 0 THEN Frac(0 - x.n * y.d, 0 - x.d * y.n)
  ELSE Frac(x.n * y.d, x.d * y.n)

\* The predicates of icmp and fcmp on the difference l - r (its sign for
\* fractions); an unordered fcmp is true on a NaN.
compare(pred, diff) ==
  IF pred \in {"eq", "ueq"} THEN diff = 0
  ELSE IF pred \in {"ne", "une"} THEN diff # 0
  ELSE IF pred \in {"slt", "ult"} THEN diff < 0
  ELSE IF pred \in {"sle", "ule"} THEN diff <= 0
  ELSE IF pred \in {"sgt", "ugt"} THEN diff > 0
  ELSE diff >= 0

predicateOf(op) ==
  CASE op \in {"icmp eq", "fcmp ueq"} -> "eq"
    [] op \in {"icmp ne", "fcmp une"} -> "ne"
    [] op \in {"icmp slt", "fcmp ult"} -> "slt"
    [] op \in {"icmp sle", "fcmp ule"} -> "sle"
    [] op \in {"icmp sgt", "fcmp ugt"} -> "sgt"
    [] OTHER -> "sge"

IntOps == {"add", "sub", "mul", "sdiv"}
FloatOps == {"fadd", "fsub", "fmul", "fdiv"}
ICmpOps == {"icmp eq", "icmp ne", "icmp slt", "icmp sle", "icmp sgt", "icmp sge"}
FCmpOps == {"fcmp ueq", "fcmp une", "fcmp ult", "fcmp ule", "fcmp ugt", "fcmp uge"}
BinaryOps == IntOps \cup FloatOps \cup ICmpOps \cup FCmpOps \cup {"fcmp one"}

Bool(b) == RtInt("i1", IF b THEN -1 ELSE 0)

stepBinary(ins, i, m, l, r) ==
  IF l.ty # r.ty THEN Undefined(m)
  ELSE IF ins.op \in IntOps THEN
    IF ~isIntegerTy(l.ty) \/ l.ty # ins.ty \/ (ins.op = "sdiv" /\ r.n = 0) THEN Undefined(m)
    ELSE SetReg(m, i, RtInt(ins.ty, Wrap(getIntegerBitWidth(ins.ty), intArith(ins.op, l.n, r.n))))
  ELSE IF ins.op \in FloatOps THEN
    IF ~isFloatingPointTy(l.ty) \/ l.ty # ins.ty THEN Undefined(m)
    ELSE SetReg(m, i, RtFloat(ins.ty, floatArith(ins.op, l, r)))
  ELSE IF ins.op \in ICmpOps THEN
    IF ~isIntegerTy(l.ty) THEN Undefined(m)
    ELSE SetReg(m, i, Bool(compare(predicateOf(ins.op), l.n - r.n)))
  ELSE IF ins.op = "fcmp one" THEN
    IF ~isFloatingPointTy(l.ty) THEN Undefined(m)
    ELSE SetReg(m, i, Bool(l.d # 0 /\ r.d # 0 /\ l.n * r.d # r.n * l.d))
  ELSE
    IF ~isFloatingPointTy(l.ty) THEN Undefined(m)
    ELSE SetReg(m, i, Bool(l.d = 0 \/ r.d = 0
                           \/ compare(predicateOf(ins.op), l.n * r.d - r.n * l.d)))

stepUnary(ins, i, m, v) ==
  IF ins.op = "gep" THEN
    IF v.ty # "ptr" THEN Undefined(m)
    ELSE SetReg(m, i, RtPtr(v.a, v.n + FieldOffset(ins.x.layout, ins.x.idx)))
  ELSE IF ins.op = "load" THEN
    IF ~inBounds(m, v, SizeOf(ins.ty)) THEN Undefined(m)
    ELSE SetReg(m, i, LoadValue(m.allocs[v.a].stores, v.n, ins.ty, m.g))
  ELSE IF ins.op = "intcast" THEN
    IF ~isIntegerTy(v.ty) THEN Undefined(m)
    ELSE SetReg(m, i, RtInt(ins.ty, Wrap(getIntegerBitWidth(ins.ty), v.n)))
  ELSE IF ins.op = "sitofp" THEN
    IF ~isIntegerTy(v.ty) THEN Undefined(m)
    ELSE SetReg(m, i, RtFloat(ins.ty, Frac(v.n, 1)))
  ELSE IF ins.op = "uitofp" THEN
    IF ~isIntegerTy(v.ty) \/ (v.n < 0 /\ getIntegerBitWidth(v.ty) >= 31) THEN Undefined(m)
    ELSE SetReg(m, i, RtFloat(ins.ty,
                  Frac(IF v.n < 0 THEN v.n + 2 ^ getIntegerBitWidth(v.ty) ELSE v.n, 1)))
  ELSE IF ins.op = "fpext" THEN
    IF v.ty # "float" THEN Undefined(m)
    ELSE SetReg(m, i, RtFloat(ins.ty, Frac(v.n, v.d)))
  ELSE \* fptosi: the value rounded towards zero, which the type must hold
    IF ~isFloatingPointTy(v.ty) \/ v.d = 0 THEN Undefined(m)
    ELSE IF Wrap(getIntegerBitWidth(ins.ty), SDiv(v.n, v.d)) # SDiv(v.n, v.d) THEN Undefined(m)
    ELSE SetReg(m, i, RtInt(ins.ty, SDiv(v.n, v.d)))

stepStore(m, v, p) ==
  IF ~inBounds(m, p, SizeOf(v.ty)) THEN Undefined(m)
  ELSE [m EXCEPT !.allocs[p.a].stores = Append(@, [off |-> p.n, val |-> v])]

\* The allocations are numbered in the order of their creation; that of a
\* function that returned has no bytes left.
NewAlloc(m) == Cardinality(DOMAIN m.allocs) + 1

\* The instruction with index i that is no terminator, phi or call.
Step(ins, i, m) ==
  IF \E j \in 1..Len(ins.a) : ~operandDefined(m, ins.a[j]) THEN Undefined(m)
  ELSE IF ins.op = "alloca"
  THEN [SetReg(m, i, RtPtr(NewAlloc(m), 0)) EXCEPT
          !.allocs = Put(@, NewAlloc(m), [size |-> AllocSize(ins.x.layout), stores |-> <<>>,
                                          frame |-> Len(m.stack)])]
  ELSE IF ins.op = "store" THEN stepStore(m, operand(m, ins.a[1]), operand(m, ins.a[2]))
  ELSE IF ins.op \in BinaryOps
  THEN stepBinary(ins, i, m, operand(m, ins.a[1]), operand(m, ins.a[2]))
  ELSE stepUnary(ins, i, m, operand(m, ins.a[1]))

\* The first instruction of block b after the instruction i, 0 when none.
NextIn(code, b, i) ==
  IF \E j \in (i + 1)..Len(code) : code[j].b = b
  THEN CHOOSE j \in (i + 1)..Len(code) :
         code[j].b = b /\ \A k \in (i + 1)..(j - 1) : code[k].b # b
  ELSE 0

Advance(code, m) ==
  IF m.ub THEN m ELSE [m EXCEPT !.pos = NextIn(code, code[m.pos].b, m.pos)]

\* br and the taken side of condbr
Jump(code, m, b) == [m EXCEPT !.prev = code[m.pos].b, !.pos = NextIn(code, b, 0)]

\* phi: the incoming value of the block control came from.
stepPhi(code, ins, m) ==
  IF \A k \in 1..Len(ins.a) : ins.x.blocks[k] # m.prev THEN Undefined(m)
  ELSE IF ~operandDefined(m, ins.a[CHOOSE k \in 1..Len(ins.a) : ins.x.blocks[k] = m.prev])
  THEN Undefined(m)
  ELSE IF operand(m, ins.a[CHOOSE k \in 1..Len(ins.a) : ins.x.blocks[k] = m.prev]).ty # ins.ty
  THEN Undefined(m)
  ELSE Advance(code, SetReg(m, m.pos,
                            operand(m, ins.a[CHOOSE k \in 1..Len(ins.a) :
                                                ins.x.blocks[k] = m.prev])))

\* call: the arguments must have the types of the parameters; the frame of
\* the caller is kept on the stack.
stepCall(st, ins, m) ==
  IF \E j \in 1..Len(ins.a) : ~operandDefined(m, ins.a[j]) THEN Undefined(m)
  ELSE IF Len(ins.a) # Len(st.functions[ins.x.callee].args) THEN Undefined(m)
  ELSE IF \E j \in 1..Len(ins.a) :
            operand(m, ins.a[j]).ty # st.functions[ins.x.callee].args[j]
  THEN Undefined(m)
  ELSE [m EXCEPT !.stack = Append(@, [regs |-> m.regs, args |-> m.args, pos |-> m.pos,
                                      prev |-> m.prev]),
                 !.regs = EmptyMap,
                 !.args = [j \in 1..Len(ins.a) |-> operand(m, ins.a[j])],
                 !.prev = 0,
                 !.pos = NextIn(st.code, st.functions[ins.x.callee].entry, 0)]

\* The return of the value v to the caller, or of calc to run.
returnTo(st, m, v) ==
  IF m.stack = <<>> THEN [m EXCEPT !.ret = v, !.done = TRUE]
  ELSE Advance(st.code,
               [m EXCEPT !.stack = SubSeq(@, 1, Len(@) - 1),
                         !.regs = Put(m.stack[Len(m.stack)].regs, m.stack[Len(m.stack)].pos, v),
                         !.args = m.stack[Len(m.stack)].args,
                         !.pos = m.stack[Len(m.stack)].pos,
                         !.prev = m.stack[Len(m.stack)].prev,
                         !.allocs = [a \in DOMAIN @ |->
                                       IF @[a].frame = Len(m.stack)
                                       THEN [@[a] EXCEPT !.size = 0] ELSE @[a]]])

\* ret: the value must have the return type of the function; ret void leaves
\* the result of a function that is not void indeterminate.
stepRet(st, ins, m, retType) ==
  IF ins.a = <<>> THEN
    IF retType # "void" THEN Undefined(m) ELSE returnTo(st, m, RtInt("void", 0))
  ELSE IF ~operandDefined(m, ins.a[1]) THEN Undefined(m)
  ELSE IF operand(m, ins.a[1]).ty # retType THEN Undefined(m)
  ELSE returnTo(st, m, operand(m, ins.a[1]))

stepCondBr(code, ins, m) ==
  IF ~operandDefined(m, ins.a[1]) THEN Undefined(m)
  ELSE IF operand(m, ins.a[1]).ty # "i1" THEN Undefined(m)
  ELSE Jump(code, m, ins.x.targets[IF operand(m, ins.a[1]).n # 0 THEN 1 ELSE 2])

\* One instruction of the running function.
StepAt(st, ins, m) ==
  IF ins.op = "br" THEN Jump(st.code, m, ins.x.targets[1])
  ELSE IF ins.op = "condbr" THEN stepCondBr(st.code, ins, m)
  ELSE IF ins.op = "phi" THEN stepPhi(st.code, ins, m)
  ELSE IF ins.op = "call" THEN stepCall(st, ins, m)
  ELSE IF ins.op = "ret" THEN stepRet(st, ins, m, st.functions[st.blocks[ins.b].fn].ret)
  ELSE Advance(st.code, Step(ins, m.pos, m))

\* The run of at most fuel instructions; control past the end of a block is
\* undefined behaviour.
RECURSIVE ExecFrom(_, _, _)
ExecFrom(st, m, fuel) ==
  IF m.ub \/ m.done \/ fuel = 0 THEN m
  ELSE IF m.pos = 0 THEN Undefined(m)
  ELSE ExecFrom(st, StepAt(st, st.code[m.pos], m), fuel - 1)

\* calcFn(), followed for MaxSteps instructions.
MaxSteps == 120
Exec(st, g) ==
  ExecFrom(st, [Machine(g) EXCEPT !.pos = NextIn(st.code, EntryBlock, 0)], MaxSteps)


\* Engine::run after codegenExpr returned: the return of calc.  A function
\* main exists in the module only after the lowering of a call of it; the
\* call of main is inserted at the end of the entry block.
finishRet(c) == IF Failed(c) THEN c ELSE Emit(c.st, "ret", "void", <<c.val>>, NoX)
finishCalc(r) ==
  IF r.val.k # "null"
  THEN finishRet(IF isIntegerTy(r.val.ty) THEN Emit(r.st, "sitofp", "double", <<r.val>>, NoX)
                 ELSE r)
  ELSE IF getFunction(r.st, Str("main"))
  THEN finishRet(Emit(SetInsertPoint(r.st, EntryBlock), "call",
                      r.st.functions[Str("main")].ret, <<>>, [callee |-> Str("main")]))
  ELSE Emit(r.st, "ret", "void", <<Const("double", Frac(0, 1))>>, NoX)

\* The engine after the try block and the emission of the return: val is the
\* value codegenExpr returned.
withReturn(r, f) == [st |-> f.st, val |-> r.val, exc |-> f.exc]
lowered(r) == IF Failed(r) THEN r ELSE withReturn(r, finishCalc(r))

MaxGarbage == 7

\* The values an indeterminate integer may have: a bit width read from a
\* type that is no integer type, and the contents of bytes never written.
GarbageBits == {0, 32}
GarbageMem == 0..MaxGarbage

\* What run leaves on the output: the line of the JIT result, the line of a
\* codegen error, an exception that leaves run, or a crash.
NoOutput == [kind |-> "none", n |-> 0, d |-> 1]
Result(v) == [kind |-> "JIT result", n |-> v.n, d |-> v.d]
CodegenError == [kind |-> "Codegen error", n |-> 0, d |-> 1]
Escapes == [kind |-> "exception", n |-> 0, d |-> 1]
Crash == [kind |-> "crash", n |-> 0, d |-> 1]
NoReturn == [kind |-> "no return", n |-> 0, d |-> 1]

\* After undefined behaviour: a crash, or any result.
UBOutcomes == {Crash} \cup {Result(Frac(g, 1)) : g \in GarbageMem}

NoEngine == Res(EngineInit(0), Null)
RunIdle == eng = NoEngine /\ out = NoOutput

\* The variables of main before it is called.
FileNames == {"a", "b"}
NoFile == [exists |-> FALSE, contents |-> <<>>]
File(contents) == [exists |-> TRUE, contents |-> contents]
NoArgs == [bad |-> FALSE, help |-> FALSE, filenames |-> <<>>]
Folded(v) == [exc |-> "", msg |-> "", v |-> v, poison |-> FALSE]
Poison == [exc |-> "", msg |-> "", v |-> 0, poison |-> TRUE]
Thrown(type, msg) == [exc |-> type, msg |-> msg, v |-> 0, poison |-> FALSE]
NoCalc == Folded(0)
MainIdle ==
  argv = NoArgs /\ files = [f \in FileNames |-> NoFile] /\ calc = NoCalc /\ status = "not run"

(***************************************************************************)
(* SpecLex: lex run byte by byte on every source over LexAlphabet.         *)
(***************************************************************************)
LexAlphabet == {"n", ";", NL, QUOTE, "(", " ", escapeChar, "#", "_"}

\* History of token starts, read off one step of the lexer: the tokens a step
\* emits are, in order, the pending atom, then a string or paren token.
NewStarts(old, new, i, atomStart, strStart) ==
  LET k == Len(new.tokens) - Len(old.tokens)
      startOf(t) == IF t.type = "TokenAtom" THEN atomStart
                    ELSE IF t.type = "TokenString" THEN strStart
                    ELSE i
  IN [j \in 1..k |-> startOf(new.tokens[Len(old.tokens) + j])]

\* The variables of the reader before read is called.
NoResult == [ok |-> FALSE, node |-> NoNode, rest |-> <<>>, exc |-> "", msg |-> "not called"]
ReadIdle == accepts = {} /\ rd = NoResult /\ printed = <<>> /\ rd2 = NoResult
LexIdle == lx = LexInit /\ starts = <<>> /\ curAtom = 0 /\ curStr = 0

InitLex ==
  /\ src \in SeqsUpTo(LexAlphabet, MaxSrcLen)
  /\ pc = "lex"
  /\ lx = LexInit
  /\ starts = <<>>
  /\ curAtom = 0
  /\ curStr = 0
  /\ ReadIdle
  /\ RunIdle
  /\ MainIdle

\* One iteration of the loop of lex.
LexChar ==
  /\ pc = "lex"
  /\ lx.it <= Len(src)
  /\ lx' = LexIter(lx, src[lx.it])
  /\ starts' = starts \o NewStarts(lx, lx', lx.it, curAtom, curStr)
  /\ curAtom' = IF lx'.token = <<>> THEN 0
                ELSE IF lx'.token # lx.token /\ Len(lx'.token) = 1 THEN lx.it
                ELSE curAtom
  /\ curStr' = IF lx'.inString /\ ~lx.inString THEN lx.it ELSE curStr
  /\ UNCHANGED <<src, pc, readVars, runVars, mainVars>>

\* The end of lex: the flush after the loop, and the return.
LexEnd ==
  /\ pc = "lex"
  /\ lx.it > Len(src)
  /\ lx' = LexFinish(lx)
  /\ starts' = starts \o NewStarts(lx, lx', lx.it, curAtom, curStr)
  /\ pc' = "lexed"
  /\ UNCHANGED <<src, curAtom, curStr, readVars, runVars, mainVars>>

NextLex == LexChar \/ LexEnd

SpecLex == InitLex /\ [][NextLex]_vars

(***************************************************************************)
(* SpecAtom: the atom predicates and read applied to every atom text over  *)
(* AtomAlphabet (and nil, true, false).                                    *)
(***************************************************************************)
AtomAlphabet == {"1", "N", "M", ".", "e", "-", ":", "a", escapeChar}

\* The values the uninitialised fields read by the parser may hold.
Uninit == [type : NodeTypes, column : {-1, 0}]

\* read(edn) reads an uninitialised EdnNode::type only for a closing bracket
\* token (handleCollection), and an uninitialised column only for a token
\* that starts with `#` (handleTagged).
UninitChoices(closer, tag) ==
  [type : IF closer THEN NodeTypes ELSE {"EdnNil"},
   column : IF tag THEN {-1, 0} ELSE {0}]

UninitOf(tokens) ==
  UninitChoices(\E i \in 1..Len(tokens) : tokens[i].value \in {<<")">>, <<"]">>, <<"}">>},
                \E i \in 1..Len(tokens) : tokens[i].value # <<>> /\ tokens[i].value[1] = "#")

UninitFor(edn) == UninitOf(lex(edn))

\* The outcomes of a call: those that are defined, and for undefined
\* behaviour any of crash, throw and return of an arbitrary node.
Outcomes(rs) ==
  {r \in rs : r.exc # "UB"}
  \cup (IF \E r \in rs : r.exc = "UB"
        THEN {Throw("crash", "undefined behaviour"),
              Throw("const char*", "undefined behaviour")}
             \cup {Ok(EdnNode(t, 0, 0, <<>>, <<>>), <<>>) : t \in NodeTypes}
        ELSE {})

\* What a call of read(edn) can do.
ReadOutcomes(edn) == Outcomes({read(edn, u) : u \in UninitFor(edn)})

AtomPredicates(value) ==
  {p \in {"validNil", "validBool", "validChar", "validInt", "validFloat",
          "validKeyword", "validSymbol"} :
     (CASE p = "validNil" -> validNil(value)
        [] p = "validBool" -> validBool(value)
        [] p = "validChar" -> validChar(value)
        [] p = "validInt" -> validInt(value, TRUE)
        [] p = "validFloat" -> validFloat(value)
        [] p = "validKeyword" -> validKeyword(value)
        [] p = "validSymbol" -> validSymbol(value)) = "true"}

InitAtom ==
  /\ src \in SeqsUpTo(AtomAlphabet, MaxAtomLen)
             \cup {<<"n", "i", "l">>, <<"t", "r", "u", "e">>, <<"f", "a", "l", "s", "e">>}
  /\ pc = "atom"
  /\ LexIdle
  /\ ReadIdle
  /\ RunIdle
  /\ MainIdle

\* Each atom predicate is applied to src.
Classify ==
  /\ pc = "atom"
  /\ accepts' = AtomPredicates(src)
  /\ pc' = "classified"
  /\ UNCHANGED <<src, lexVars, rd, printed, rd2, runVars, mainVars>>

\* read(src).
ReadAtom ==
  /\ pc = "classified"
  /\ rd' \in ReadOutcomes(src)
  /\ pc' = "read"
  /\ UNCHANGED <<src, lexVars, accepts, printed, rd2, runVars, mainVars>>

NextAtom == Classify \/ ReadAtom

SpecAtom == InitAtom /\ [][NextAtom]_vars

(***************************************************************************)
(* SpecRead: read, pprint in single-line mode, read again, on every source *)
(* over ReadAlphabet.                                                      *)
(***************************************************************************)
ReadAlphabet == {"(", ")", "{", "}", "#", "_", "n", QUOTE, " ", escapeChar}

InitRead ==
  /\ src \in SeqsUpTo(ReadAlphabet, MaxReadLen)
  /\ pc = "start"
  /\ LexIdle
  /\ ReadIdle
  /\ RunIdle
  /\ MainIdle

\* read(src).
Read ==
  /\ pc = "start"
  /\ rd' \in ReadOutcomes(src)
  /\ pc' = IF rd'.ok THEN "parsed" ELSE "threw"
  /\ UNCHANGED <<src, lexVars, accepts, printed, rd2, runVars, mainVars>>

\* pprint(node, 0, false); a map with an odd number of children is undefined
\* behaviour, after which nothing is known.
Pprint ==
  /\ pc = "parsed"
  /\ printed' = pprint(rd.node, 0, FALSE)
  /\ pc' = IF printed' = PprintUB THEN "undefined" ELSE "printed"
  /\ UNCHANGED <<src, lexVars, accepts, rd, rd2, runVars, mainVars>>

\* read of the printed text.
Reread ==
  /\ pc = "printed"
  /\ rd2' \in ReadOutcomes(printed)
  /\ pc' = "reread"
  /\ UNCHANGED <<src, lexVars, accepts, rd, printed, runVars, mainVars>>

NextRead == Read \/ Pprint \/ Reread

SpecRead == InitRead /\ [][NextRead]_vars

(***************************************************************************)
(* SpecRun: Engine::run on every source of Programs.                       *)
(***************************************************************************)
MaxForms == 3

Sp(a, b) == a \o <<" ">> \o b
P(s) == <<"(">> \o s \o <<")">>
Kw(name) == <<":">> \o name

\* Top-level forms whose value does not depend on the forms before them.
Forms ==
  {[text |-> <<"1">>, value |-> 1],
   [text |-> <<"2">>, value |-> 2],
   [text |-> P(Sp(<<"+">>, Sp(<<"1">>, <<"2">>))), value |-> 3],
   [text |-> P(Sp(<<"*">>, Sp(<<"2">>, <<"3">>))), value |-> 6]}

FormSeqs == SeqsUpTo(Forms, MaxForms) \ {<<>>}

RECURSIVE JoinForms(_)
JoinForms(fs) ==
  IF Len(fs) = 1 THEN fs[1].text ELSE Sp(fs[1].text, JoinForms(Tail(fs)))

AssignText(name, type, value) == P(Sp(<<"=">>, Sp(name, Sp(Kw(Str(type)), value))))
BinopText(op, l, r) == P(Sp(op, Sp(l, r)))

\* (= x :int32 10) (= y :int32 (+ x 5)) (+ x y)
Scenario3 ==
  Sp(AssignText(<<"x">>, "int32", <<"1", "0">>),
     Sp(AssignText(<<"y">>, "int32", BinopText(<<"+">>, <<"x">>, <<"5">>)),
        BinopText(<<"+">>, <<"x">>, <<"y">>)))

\* (defn :int32 add ((a :int32) (b :int32)) (+ a b)) (add 4 6)
Scenario4 ==
  Sp(P(Sp(Str("defn"),
          Sp(Kw(Str("int32")),
             Sp(<<"a", "d", "d">>,
                Sp(P(Sp(P(Sp(<<"a">>, Kw(Str("int32")))), P(Sp(<<"b">>, Kw(Str("int32")))))),
                   BinopText(<<"+">>, <<"a">>, <<"b">>)))))),
     P(Sp(<<"a", "d", "d">>, Sp(<<"4">>, <<"6">>))))

\* A struct of two fields, its construction, an optional field assignment
\* and a field access, as one sequence:
\* ((struct S ((n1 :t1) (n2 :t2))) (= p (S (v1 v2))) (= (. p :nk) v) (. p :ng))
FieldTypes == {"int32", "int64", "float64"}
StructDescs ==
  [names : {<<"x", "y">>, <<"x", "x">>},
   types : FieldTypes \X FieldTypes,
   vals : {<<"3">>, <<"1", ".", "5">>} \X {<<"4">>, <<"2", ".", "5">>},
   assign : {-1, 0, 1},
   assigned : {<<"5">>, <<"3", ".", "5">>},
   get : {0, 1}]

FieldText(name, type) == P(Sp(<<name>>, Kw(Str(type))))
AccessText(name) == P(Sp(<<".">>, Sp(<<"p">>, Kw(<<name>>))))

StructText(d) ==
  P(Sp(P(Sp(Str("struct"),
            Sp(<<"S">>, P(Sp(FieldText(d.names[1], d.types[1]),
                             FieldText(d.names[2], d.types[2])))))),
       Sp(P(Sp(<<"=">>, Sp(<<"p">>, P(Sp(<<"S">>, P(Sp(d.vals[1], d.vals[2]))))))),
          IF d.assign = -1 THEN AccessText(d.names[d.get + 1])
          ELSE Sp(P(Sp(<<"=">>, Sp(AccessText(d.names[d.assign + 1]), d.assigned))),
                  AccessText(d.names[d.get + 1])))))

\* A binary operator form after the definition of a symbol a of a type:
\* ((= a :ta v) (OP l r)), each operand an Int or a Float literal, the
\* symbol a, or a nested operator form on Int or on Float literals.
SymbolTypes == {"int8", "int32", "int64", "float32", "float64"}
OperandKinds == {"Int", "Float", "Symbol", "IntList", "FloatList"}
BinopDescs == [ta : SymbolTypes, op : {"+", "<"}, l : OperandKinds, r : OperandKinds]

OperandText(kind) ==
  CASE kind = "Int" -> <<"2">>
    [] kind = "Float" -> <<"2", ".", "5">>
    [] kind = "Symbol" -> <<"a">>
    [] kind = "IntList" -> BinopText(<<"+">>, <<"1">>, <<"2">>)
    [] kind = "FloatList" -> BinopText(<<"+">>, <<"1", ".", "5">>, <<"2", ".", "5">>)

BinopProgram(d) ==
  P(Sp(AssignText(<<"a">>, d.ta,
                  IF d.ta \in {"float32", "float64"} THEN <<"1", ".", "5">> ELSE <<"1">>),
       BinopText(<<d.op>>, OperandText(d.l), OperandText(d.r))))

\* A list of the given forms.
RECURSIVE Words(_)
Words(ws) ==
  IF ws = <<>> THEN <<>> ELSE IF Len(ws) = 1 THEN ws[1] ELSE Sp(ws[1], Words(Tail(ws)))
L(ws) == P(Words(ws))
Defn(ret, name, args, body) == L(<<Str("defn"), Kw(Str(ret)), name, L(args), body>>)

\* The definition of a function NAME of one parameter, where it is used
\* that of a function g that calls it, and one or two calls:
\* ((defn :int32 NAME (n) BODY) (defn :int32 g (n) (NAME n)) (NAME 2) CALL)
\* BODY is n, the self-recursive (NAME n), the mutually recursive (g n), or
\* (cond ((< n 1) 0) (else (NAME (- n 1)))); CALL is absent, (NAME 1) or (g 1).
CallDescs ==
  {d \in [name : {<<"f">>, Str("calc")},
          body : {"const", "self", "mutual", "countdown"},
          second : {"none", "same", "other"}] :
     /\ d.name = Str("calc") => d.body = "const"
     /\ d.body = "countdown" => d.second # "other"}
UsesG(d) == d.body = "mutual" \/ d.second = "other"

CallBody(d) ==
  CASE d.body = "const" -> <<"n">>
    [] d.body = "self" -> L(<<d.name, <<"n">>>>)
    [] d.body = "mutual" -> L(<<<<"g">>, <<"n">>>>)
    [] d.body = "countdown" ->
         L(<<Str("cond"), L(<<BinopText(<<"<">>, <<"n">>, <<"1">>), <<"0">>>>),
             L(<<Str("else"), L(<<d.name, BinopText(<<"-">>, <<"n">>, <<"1">>)>>)>>)>>)

CallProgram(d) ==
  L(<<Defn("int32", d.name, <<<<"n">>>>, CallBody(d))>>
    \o (IF UsesG(d) THEN <<Defn("int32", <<"g">>, <<<<"n">>>>, L(<<d.name, <<"n">>>>))>>
        ELSE <<>>)
    \o <<L(<<d.name, <<"2">>>>)>>
    \o (CASE d.second = "none" -> <<>>
          [] d.second = "same" -> <<L(<<d.name, <<"1">>>>)>>
          [] d.second = "other" -> <<L(<<<<"g">>, <<"1">>>>)>>))

\* A cond of up to MaxClauses clauses: (cond CLAUSE1 CLAUSE2 ...).  The
\* clause i is (TEST EXPR) or the one-child (EXPR); TEST is the true (< 1 2),
\* the false (< 2 1) or else; EXPR is the literal 10 * i, or for the clause
\* with index nested the cond (cond ((< 1 2) EXPR) (else 2)) of that value.
MaxClauses == 3
TestKinds == {"true", "false", "else", "none"}
CondDescs ==
  UNION {{[tests |-> ts, nested |-> k] : k \in 0..Len(ts)} :
           ts \in SeqsUpTo(TestKinds, MaxClauses) \ {<<>>}}

ClauseValue(i) == 10 * i
ClauseLiteral(i) == <<CASE i = 1 -> "1" [] i = 2 -> "2" [] i = 3 -> "3" [] OTHER -> "4", "0">>
TestText(kind) ==
  CASE kind = "true" -> BinopText(<<"<">>, <<"1">>, <<"2">>)
    [] kind = "false" -> BinopText(<<"<">>, <<"2">>, <<"1">>)
    [] kind = "else" -> Str("else")
ClauseExpr(d, i) ==
  IF d.nested = i
  THEN L(<<Str("cond"), L(<<TestText("true"), ClauseLiteral(i)>>), L(<<Str("else"), <<"2">>>>)>>)
  ELSE ClauseLiteral(i)
ClauseText(d, i) ==
  IF d.tests[i] = "none" THEN L(<<ClauseExpr(d, i)>>)
  ELSE L(<<TestText(d.tests[i]), ClauseExpr(d, i)>>)
CondProgram(d) == L(<<Str("cond")>> \o [i \in 1..Len(d.tests) |-> ClauseText(d, i)])

\* A sequence whose last form has no value, with the definition of a
\* function NAME of no parameter that returns 7, called or not:
\* ((defn :RET NAME () 7) (NAME) (struct S ((x :int32)))), or with the
\* definition once more in the place of the struct form.
MainDescs ==
  [ret : {"int32", "float64"}, name : {Str("main"), <<"f">>}, called : BOOLEAN,
   last : {"struct", "defn"}]
MainProgram(d) ==
  L(<<Defn(d.ret, d.name, <<>>, <<"7">>)>>
    \o (IF d.called THEN <<L(<<d.name>>)>> ELSE <<>>)
    \o <<IF d.last = "defn" THEN Defn(d.ret, d.name, <<>>, <<"7">>)
         ELSE L(<<Str("struct"), <<"S">>, L(<<FieldText("x", "int32")>>)>>)>>)

\* A store through q, which holds (ref x), and a read of x; q is a pointer
\* parameter or a variable:
\* ((defn :float64 f ((q :T*)) (put q :T V)) (= x :T 0) (f (ref x)) x)
\* ((= x :T 0) (= q :T* (ref x)) (put q :T V) x)
PutDescs == [how : {"param", "variable"}, type : {"int32", "int64"}, value : {<<"3">>, <<"5">>}]
PointerTo(type) == Str(type) \o <<"*">>
RefX == L(<<Str("ref"), <<"x">>>>)
PutText(d) == L(<<Str("put"), <<"q">>, Kw(Str(d.type)), d.value>>)
PutProgram(d) ==
  IF d.how = "param"
  THEN L(<<L(<<Str("defn"), Kw(Str("float64")), <<"f">>,
               L(<<L(<<<<"q">>, Kw(PointerTo(d.type))>>)>>), PutText(d)>>),
           AssignText(<<"x">>, d.type, <<"0">>), L(<<<<"f">>, RefX>>), <<"x">>>>)
  ELSE L(<<AssignText(<<"x">>, d.type, <<"0">>),
           L(<<<<"=">>, <<"q">>, Kw(PointerTo(d.type)), RefX>>), PutText(d), <<"x">>>>)

\* A dereference of p, a variable or a parameter of the declared type DECL;
\* where DECL is a pointer type p holds (ref x), x of the value 5 or 2.5:
\* ((= x :T V) (= p :T* (ref x)) (deref p))     ((= p :T V) (deref p))
\* ((defn :T f ((p :T*)) (deref p)) (= x :T V) (f (ref x)))
\* ((defn :T f ((p :T)) (deref p)) (f V))
DerefDescs == [base : {"int32", "float64"}, pointer : BOOLEAN, how : {"param", "variable"}]
DerefValue(d) == IF d.base = "int32" THEN <<"5">> ELSE <<"2", ".", "5">>
DerefText == L(<<Str("deref"), <<"p">>>>)
DerefFunction(d, decl) ==
  L(<<Str("defn"), Kw(Str(d.base)), <<"f">>, L(<<L(<<<<"p">>, Kw(decl)>>)>>), DerefText>>)
DerefProgram(d) ==
  IF d.how = "param" THEN
    IF d.pointer
    THEN L(<<DerefFunction(d, PointerTo(d.base)), AssignText(<<"x">>, d.base, DerefValue(d)),
             L(<<<<"f">>, RefX>>)>>)
    ELSE L(<<DerefFunction(d, Str(d.base)), L(<<<<"f">>, DerefValue(d)>>)>>)
  ELSE
    IF d.pointer
    THEN L(<<AssignText(<<"x">>, d.base, DerefValue(d)),
             L(<<<<"=">>, <<"p">>, Kw(PointerTo(d.base)), RefX>>), DerefText>>)
    ELSE L(<<AssignText(<<"p">>, d.base, DerefValue(d)), DerefText>>)

\* One program for each kind of failure of the lowering.
StructS == L(<<Str("struct"), <<"S">>, L(<<FieldText("x", "int32")>>)>>)
NewS == L(<<<<"=">>, <<"p">>, L(<<<<"S">>, L(<<<<"1">>>>)>>)>>)
ErrorKinds ==
  {"arity", "child kind", "operator", "variable", "type tag", "float type tag", "field",
   "redefinition", "field type", "argument count"}
ErrorProgram(kind) ==
  CASE kind = "arity" -> L(<<Str("ref")>>)
    [] kind = "child kind" -> L(<<Str("ref"), <<"1">>>>)
    [] kind = "operator" -> L(<<<<"f">>, <<"1">>>>)
    [] kind = "variable" -> BinopText(<<"+">>, <<"x">>, <<"1">>)
    [] kind = "type tag" -> L(<<<<"=">>, <<"x">>, Kw(<<"t">>), <<"1">>>>)
    [] kind = "float type tag" -> L(<<<<"=">>, <<"x">>, Kw(<<"t">>), <<"1", ".", "5">>>>)
    [] kind = "field" -> L(<<StructS, NewS, AccessText("z")>>)
    [] kind = "redefinition" -> L(<<StructS, StructS>>)
    [] kind = "field type" ->
         L(<<StructS, NewS, L(<<<<"=">>, AccessText("x"), <<"2", ".", "5">>>>)>>)
    [] kind = "argument count" ->
         L(<<Defn("int32", <<"f">>, <<<<"a">>>>, <<"a">>), L(<<<<"f">>>>)>>)

\* Two struct forms of the same name: ((struct S ((x :T1))) (struct S ((N :T2))))
RedefDescs == [first : FieldTypes, name : {"x", "y"}, second : FieldTypes]
RedefProgram(d) ==
  L(<<L(<<Str("struct"), <<"S">>, L(<<FieldText("x", d.first)>>)>>),
      L(<<Str("struct"), <<"S">>, L(<<FieldText(d.name, d.second)>>)>>)>>)

\* Programs with the discard form #_ 7 at one place of the tree.
DiscardPlaces == {"top", "operand", "sequence", "body", "after else"}
DiscardForm == <<"#", "_", " ", "7">>
DiscardProgram(place) ==
  CASE place = "top" -> DiscardForm
    [] place = "operand" -> L(<<<<"+">>, <<"1">>, DiscardForm, <<"2">>>>)
    [] place = "sequence" ->
         L(<<L(<<<<"=">>, <<"x">>, Kw(Str("int32")), <<"1">>>>), DiscardForm, <<"x">>>>)
    [] place = "body" ->
         L(<<L(<<Str("defn"), Kw(Str("int32")), <<"f">>, L(<<>>), <<"1">>, DiscardForm>>),
             L(<<<<"f">>>>)>>)
    [] place = "after else" ->
         L(<<Str("cond"), L(<<Str("else"), <<"1">>>>), DiscardForm>>)

\* A list of one to MaxForms forms of which the first is a list: ((+ 1 2) 2 (* 2 3))
IsListForm(f) == f.text[1] = "("
SeqDescs == {fs \in FormSeqs : IsListForm(fs[1])}
SeqProgram(fs) == P(JoinForms(fs))

\* A function NAME of one parameter n, called once or twice, after the
\* caller has bound n itself or not:
\* ((= n :int32 1) (defn :int32 NAME (n) n) (NAME 2) (NAME 3))
LeakDescs == [name : {<<"f">>, Str("calc")}, pre : BOOLEAN, again : BOOLEAN]
LeakProgram(d) ==
  L((IF d.pre THEN <<AssignText(<<"n">>, "int32", <<"1">>)>> ELSE <<>>)
    \o <<Defn("int32", d.name, <<<<"n">>>>, <<"n">>), L(<<d.name, <<"2">>>>)>>
    \o (IF d.again THEN <<L(<<d.name, <<"3">>>>)>> ELSE <<>>))

\* A typed assignment to x as the last form, after the definition of a
\* function f of one parameter, a binding of y and, or not, one of x:
\* ((defn :int32 f (P) P) (= y :int32 2) (= x :int32 1) (= x :TYPE VALUE))
\* VALUE is 3, y, (+ y 1) or (f 2).
AssignDescs ==
  {d \in [bound : BOOLEAN, type : {"int32", "float64"},
          value : {"literal", "symbol", "binop", "call"}, param : {"n", "x"}] :
     d.param = "x" => d.value = "call"}
AssignPrefix(d) ==
  <<Defn("int32", <<"f">>, <<<<d.param>>>>, <<d.param>>), AssignText(<<"y">>, "int32", <<"2">>)>>
  \o (IF d.bound THEN <<AssignText(<<"x">>, "int32", <<"1">>)>> ELSE <<>>)
AssignValue(d) ==
  CASE d.value = "literal" -> <<"3">>
    [] d.value = "symbol" -> <<"y">>
    [] d.value = "binop" -> BinopText(<<"+">>, <<"y">>, <<"1">>)
    [] d.value = "call" -> L(<<<<"f">>, <<"2">>>>)
AssignProgram(d) == L(AssignPrefix(d) \o <<AssignText(<<"x">>, d.type, AssignValue(d))>>)

\* Loops.  A counting loop whose test adds 1 to t and whose body adds 10:
\* ((= t :int32 0) (while (< (= t :int32 (+ t 1)) BOUND) (= t :int32 (+ t 10))) t)
\* and a loop on a variable of an integer or a floating type counted down to zero:
\* ((= x :TYPE START) (while x (= x :TYPE (- x 1))) x)
\* and a loop in a loop:
\* ((= t :int32 0) (while (< t BOUND) (while (< t 2) (= t :int32 (+ t 1)))) t)
\* each with or without the last form, so that the loop is the last form.
WhileDescs ==
  [kind : {"count"}, type : {"int32"}, bound : {0, 5, 15, 25}, last : BOOLEAN]
  \cup [kind : {"down"}, type : {"int32", "float64"}, bound : 0..2, last : BOOLEAN]
  \cup [kind : {"nested"}, type : {"int32"}, bound : {0, 2}, last : BOOLEAN]
DigitChar(k) == CHOOSE c \in Digits : DigitValue(c) = k
Literal(type, k) ==
  IF type = "float64" THEN <<DigitChar(k), ".", "0">> ELSE <<DigitChar(k)>>
BoundText(k) == IF k < 10 THEN <<DigitChar(k)>> ELSE <<DigitChar(k \div 10), DigitChar(k % 10)>>
WhileVar(d) == IF d.kind = "down" THEN <<"x">> ELSE <<"t">>
Increment == AssignText(<<"t">>, "int32", BinopText(<<"+">>, <<"t">>, <<"1">>))
WhileTest(d) ==
  IF d.kind = "count"
  THEN BinopText(<<"<">>, Increment, BoundText(d.bound))
  ELSE IF d.kind = "nested" THEN BinopText(<<"<">>, <<"t">>, BoundText(d.bound))
  ELSE <<"x">>
WhileBodyText(d) ==
  IF d.kind = "count"
  THEN AssignText(<<"t">>, "int32", BinopText(<<"+">>, <<"t">>, <<"1", "0">>))
  ELSE IF d.kind = "nested"
  THEN L(<<Str("while"), BinopText(<<"<">>, <<"t">>, <<"2">>), Increment>>)
  ELSE AssignText(<<"x">>, d.type, BinopText(<<"-">>, <<"x">>, Literal(d.type, 1)))
WhileProgram(d) ==
  L(<<AssignText(WhileVar(d), d.type,
                 IF d.kind = "down" THEN Literal(d.type, d.bound) ELSE <<"0">>),
      L(<<Str("while"), WhileTest(d), WhileBodyText(d)>>)>>
    \o (IF d.last THEN <<WhileVar(d)>> ELSE <<>>))

\* A comparison of two literals of the same type as the whole program or as
\* the value of the only clause of a cond: (OP A B), (cond (else (OP A B))).
CmpOps == {"==", "!=", "<", "<=", ">", ">="}
CmpDescs ==
  [op : CmpOps, type : {"int32", "float64"}, a : 1..2, b : 1..2, place : {"entry", "clause"}]
CmpOpText(op) == IF op = "<" THEN <<"<">> ELSE IF op = ">" THEN <<">">> ELSE Str(op)
CmpText(d) == BinopText(CmpOpText(d.op), Literal(d.type, d.a), Literal(d.type, d.b))
CmpProgram(d) ==
  IF d.place = "entry" THEN CmpText(d) ELSE L(<<Str("cond"), L(<<Str("else"), CmpText(d)>>)>>)

\* The construction of a struct of two fields from k values 3, 4, ...:
\* ((struct S ((x :int32) (y :int32))) (= p (S (3 4))))
MaxValues == 3
ArityValues(k) == [i \in 1..k |-> <<DigitChar(i + 2)>>]
ArityProgram(k) ==
  L(<<L(<<Str("struct"), <<"S">>,
          L(<<FieldText("x", "int32"), FieldText("y", "int32")>>)>>),
      L(<<<<"=">>, <<"p">>, L(<<<<"S">>, L(ArityValues(k))>>)>>)>>)

Programs ==
  {JoinForms(fs) : fs \in FormSeqs}
  \cup {Scenario3, P(Scenario3), Scenario4}
  \cup {StructText(d) : d \in StructDescs}
  \cup {BinopProgram(d) : d \in BinopDescs}
  \cup {CallProgram(d) : d \in CallDescs}
  \cup {CondProgram(d) : d \in CondDescs}
  \cup {MainProgram(d) : d \in MainDescs}
  \cup {PutProgram(d) : d \in PutDescs}
  \cup {DerefProgram(d) : d \in DerefDescs}
  \cup {ErrorProgram(kind) : kind \in ErrorKinds}
  \cup {RedefProgram(d) : d \in RedefDescs}
  \cup {DiscardProgram(place) : place \in DiscardPlaces}
  \cup {SeqProgram(fs) : fs \in SeqDescs}
  \cup {LeakProgram(d) : d \in LeakDescs}
  \cup {AssignProgram(d) : d \in AssignDescs}
  \cup {WhileProgram(d) : d \in WhileDescs}
  \cup {CmpProgram(d) : d \in CmpDescs}
  \cup {ArityProgram(k) : k \in 0..MaxValues}

InitRun ==
  /\ src \in Programs
  /\ pc = "run"
  /\ LexIdle
  /\ ReadIdle
  /\ RunIdle
  /\ MainIdle

\* run, line 50: read(s) outside the try block.
RunRead ==
  /\ pc = "run"
  /\ rd' \in ReadOutcomes(src)
  /\ pc' = IF rd'.ok THEN "parsed" ELSE "done"
  /\ out' = IF rd'.ok THEN out ELSE IF rd'.exc = "crash" THEN Crash ELSE Escapes
  /\ UNCHANGED <<src, lexVars, accepts, printed, rd2, eng, mainVars>>

codegenOutcomes(e) ==
  IF e.exc.type = "" THEN {NoOutput}
  ELSE IF e.exc.type \in {"const char*", "std::string"} THEN {CodegenError}
  ELSE IF e.exc.type = "UB" THEN UBOutcomes
  ELSE {Escapes}

\* run, lines 51-87: codegenExpr in the try block, then the return of calc.
RunCodegen ==
  /\ pc = "parsed"
  /\ \E g \in GarbageBits : eng' = lowered(codegenExpr(rd.node, EngineInit(g)))
  /\ out' \in codegenOutcomes(eng')
  /\ pc' = IF eng'.exc.type = "" THEN "lowered" ELSE "done"
  /\ UNCHANGED <<src, lexVars, readVars, mainVars>>

\* calc returned a value, ran into undefined behaviour, or is still running
\* after MaxSteps instructions.
jitOutcomes(m) ==
  IF m.ub THEN UBOutcomes ELSE IF m.done THEN {Result(m.ret)} ELSE {NoReturn}

\* run, lines 94-116: the module is compiled and calc is called.
RunJit ==
  /\ pc = "lowered"
  /\ \E g \in GarbageMem : out' \in jitOutcomes(Exec(eng.st, g))
  /\ pc' = "done"
  /\ UNCHANGED <<src, lexVars, readVars, eng, mainVars>>

NextRun == RunRead \/ RunCodegen \/ RunJit

SpecRun == InitRun /\ [][NextRun]_vars

(***************************************************************************)
(* main.cpp: the command-line program, a calculator of its own: it lowers  *)
(* the form read from the first file with the codegenExpr of main.cpp into *)
(* int calc(), and calls it.  The builder folds the arithmetic of          *)
(* constants; a division by zero is undefined.                             *)
(***************************************************************************)
mainArith(op, lhs, rhs) ==
  IF lhs.poison \/ rhs.poison THEN Poison
  ELSE IF op = <<"+">> THEN Folded(Wrap(32, lhs.v + rhs.v))
  ELSE IF op = <<"-">> THEN Folded(Wrap(32, lhs.v - rhs.v))
  ELSE IF op = <<"*">> THEN Folded(Wrap(32, lhs.v * rhs.v))
  ELSE IF rhs.v = 0 THEN Poison
  ELSE Folded(SDiv(lhs.v, rhs.v))

\* Lines 24-30 of codegenExpr, lhs and rhs being what the recursive calls
\* returned or threw.
mainBinop(op, lhs, rhs) ==
  IF lhs.exc # "" THEN lhs
  ELSE IF rhs.exc # "" THEN rhs
  ELSE IF op \in {<<"+">>, <<"-">>, <<"*">>, <<"/">>} THEN mainArith(op, lhs, rhs)
  ELSE Thrown("std::string", "Unknown operator: ")

mainInt(parsed) == IF parsed.exc # "" THEN Thrown(parsed.exc, "stoi") ELSE Folded(parsed.v)

RECURSIVE mainCodegenExpr(_)
mainCodegenExpr(node) ==
  IF node.type = "EdnInt" THEN mainInt(stoi(node.value))
  ELSE IF node.type = "EdnList" /\ node.values # <<>> THEN
    IF node.values[1].type # "EdnSymbol"
    THEN Thrown("const char*", "Expected operator symbol")
    ELSE IF Len(node.values) # 3 THEN Thrown("const char*", "Expected two operands")
    ELSE mainBinop(node.values[1].value, mainCodegenExpr(node.values[2]),
                   mainCodegenExpr(node.values[3]))
  ELSE Thrown("const char*", "Unsupported expression")

\* The handlers of main: lines 90-96 around codegenExpr, lines 113-122 around
\* read and the rest; an exception of another type ends the process in
\* std::terminate.
CaughtAtCodegen == {"const char*", "std::string"}
CaughtAtRead == {"const char*", "std::out_of_range", "std::invalid_argument"}

(***************************************************************************)
(* SpecMain: main on every command line over two file names and the files  *)
(* of MainSources.                                                         *)
(***************************************************************************)
MainSources ==
  {<<>>, <<"1">>, <<"5">>, <<"1", "2", "N">>, <<"x">>, <<"1", ".", "5">>,
   <<"9", "9", "9", "9", "9", "9", "9", "9", "9", "9">>,
   <<"(">>, <<")">>, <<QUOTE, ")", QUOTE>>, <<"(", ")">>,
   L(<<<<"+">>, <<"1">>>>), L(<<<<"1">>, <<"2">>, <<"3">>>>),
   BinopText(<<"%">>, <<"1">>, <<"2">>), BinopText(<<"+">>, <<"1">>, <<"x">>),
   BinopText(<<"+">>, <<"1">>, <<QUOTE, ")", QUOTE>>),
   BinopText(<<"+">>, BinopText(<<"*">>, <<"2">>, <<"3">>), <<"1">>)}
  \cup {BinopText(<<op>>, <<l>>, <<r>>) : op \in {"+", "-", "*", "/"}, l \in {"7"}, r \in {"0", "2"}}

CommandLines ==
  [bad : BOOLEAN, help : BOOLEAN,
   filenames : {<<>>, <<"a">>, <<"a", "b">>, <<"b", "a">>}]

InitMain ==
  /\ src = <<>>
  /\ pc = "main"
  /\ LexIdle
  /\ ReadIdle
  /\ RunIdle
  /\ argv \in CommandLines
  /\ files \in [FileNames -> {NoFile} \cup {File(c) : c \in MainSources}]
  /\ files["b"] \in {NoFile, File(<<"5">>), File(<<QUOTE, ")", QUOTE>>)}
  /\ calc = NoCalc
  /\ status = "running"

\* main, lines 37-65 and 124-134: the options, and the first file slurped.
MainOptions ==
  /\ pc = "main"
  /\ pc' = IF argv.bad THEN "options failed"
           ELSE IF argv.help THEN "usage"
           ELSE IF Len(argv.filenames) = 0 THEN "no filename"
           ELSE IF ~files[argv.filenames[1]].exists THEN "open failed"
           ELSE "read"
  /\ status' = IF pc' = "read" THEN status ELSE IF pc' = "usage" THEN "exit 0" ELSE "exit 1"
  /\ src' = IF pc' = "read" THEN files[argv.filenames[1]].contents ELSE src
  /\ UNCHANGED <<lexVars, readVars, runVars, argv, files, calc>>

\* main, line 68, and the handlers of lines 113-122.
MainRead ==
  /\ pc = "read"
  /\ rd' \in ReadOutcomes(src)
  /\ pc' = IF rd'.ok THEN "codegen" ELSE "parse failed"
  /\ status' = IF rd'.ok THEN status
               ELSE IF rd'.exc = "crash" THEN "crash"
               ELSE IF rd'.exc \in CaughtAtRead THEN "exit 1"
               ELSE "terminate"
  /\ UNCHANGED <<src, lexVars, accepts, printed, rd2, runVars, argv, files, calc>>

\* main, lines 69-97: the JIT is created, then codegenExpr in its try block.
MainCodegen ==
  /\ pc = "codegen"
  /\ \E created \in BOOLEAN :
       /\ calc' = IF created THEN mainCodegenExpr(rd.node) ELSE calc
       /\ pc' = IF ~created THEN "create failed"
                ELSE IF calc'.exc # "" THEN "codegen failed" ELSE "jit"
  /\ status' = IF pc' = "jit" THEN status
               ELSE IF pc' = "create failed" THEN "exit 1"
               ELSE IF calc'.exc \in CaughtAtCodegen \cup CaughtAtRead THEN "exit 1"
               ELSE "terminate"
  /\ UNCHANGED <<src, lexVars, readVars, runVars, argv, files>>

\* main, lines 99-111 and 136: the module is added, calc looked up and called.
MainJit ==
  /\ pc = "jit"
  /\ \E added \in BOOLEAN, found \in BOOLEAN :
       pc' = IF ~added THEN "add failed" ELSE IF ~found THEN "lookup failed" ELSE "returned"
  /\ IF pc' # "returned" THEN out' = out /\ status' = "exit 1"
     ELSE IF calc.poison
     THEN out' \in UBOutcomes /\ status' = (IF out' = Crash THEN "crash" ELSE "exit 0")
     ELSE out' = Result(Frac(calc.v, 1)) /\ status' = "exit 0"
  /\ UNCHANGED <<src, lexVars, readVars, eng, argv, files, calc>>

NextMain == MainOptions \/ MainRead \/ MainCodegen \/ MainJit

SpecMain == InitMain /\ [][NextMain]_vars

(***************************************************************************)
(* Claims about lex.                                                       *)
(***************************************************************************)
\* The byte lex is about to read belongs to a comment: a comment is open, or
\* the byte is a `;` outside a string literal (one that does not follow a
\* backslash, which the code reads as part of a character literal).
ReadingCommentByte ==
  /\ pc = "lex"
  /\ lx.it <= Len(src)
  /\ \/ lx.inComment
     \/ src[lx.it] = ";" /\ ~lx.inString /\ ~lx.escaping

\* C1: once a `;` is read outside a string literal, no byte from that `;` up to
\* and including the next newline contributes to the text of a token, and the
\* atom under construction when the `;` was read is emitted holding only the
\* bytes that preceded the `;`: reading a comment byte appends nothing to the
\* atom or string under construction and emits at most the pending atom as it
\* stood before the comment.
C1_CommentBytesDropped ==
  [][ReadingCommentByte =>
       /\ lx'.token \in {lx.token, <<>>}
       /\ lx'.stringContent \in {lx.stringContent, <<>>}
       /\ \/ lx'.tokens = lx.tokens
          \/ /\ lx.token # <<>>
             /\ Len(lx'.tokens) = Len(lx.tokens) + 1
             /\ SubSeq(lx'.tokens, 1, Len(lx.tokens)) = lx.tokens
             /\ lx'.tokens[Len(lx'.tokens)].type = "TokenAtom"
             /\ lx'.tokens[Len(lx'.tokens)].value = lx.token]_vars

\* The 1-based line and column of the byte at index i of s.
LineOf(s, i) == 1 + Cardinality({j \in 1..(i - 1) : s[j] = NL})
ColumnOf(s, i) ==
  LET nls == {j \in 1..(i - 1) : s[j] = NL}
      last == IF nls = {} THEN 0 ELSE CHOOSE j \in nls : \A k \in nls : k <= j
  IN i - last

\* C2: every token emitted by lex (ATOM, STRING or PAREN, on any line) carries
\* as (line, column) the 1-based position in the source of its first byte.
C2_TokenPositions ==
  \A i \in 1..Len(lx.tokens) :
    /\ lx.tokens[i].line = LineOf(src, starts[i])
    /\ lx.tokens[i].column = ColumnOf(src, starts[i])

(***************************************************************************)
(* Claims about the atom predicates and the classification of atoms.       *)
(***************************************************************************)
\* C4: for every string, at most one of validNil, validBool, validChar,
\* validInt, validFloat, validKeyword and validSymbol accepts it.
C4_AtMostOnePredicate == pc # "atom" => Cardinality(accepts) <= 1

IsDigits(s) == s # <<>> /\ \A i \in 1..Len(s) : s[i] \in Digits
StripSign(s) == IF s # <<>> /\ s[1] \in {"+", "-"} THEN Tail(s) ELSE s
StripSuffix(s, suffixes) ==
  IF s # <<>> /\ s[Len(s)] \in suffixes THEN SubSeq(s, 1, Len(s) - 1) ELSE s

\* optional sign, one or more digits, optional single N or M
IsIntText(s) == IsDigits(StripSuffix(StripSign(s), {"N", "M"}))

\* digits, optionally followed by e or E, an optional sign and digits
IsFractionText(s) ==
  \/ s = <<>>
  \/ IsDigits(s)
  \/ \E p \in 1..Len(s) :
       /\ s[p] \in {"e", "E"}
       /\ p = 1 \/ IsDigits(SubSeq(s, 1, p - 1))
       /\ IsDigits(StripSign(SubSeq(s, p + 1, Len(s))))

\* optional sign, digits, decimal point, optional digits and exponent, optional M
IsFloatText(s) ==
  LET t == StripSuffix(StripSign(s), {"M"})
  IN \E p \in 1..Len(t) :
       /\ t[p] = "."
       /\ IsDigits(SubSeq(t, 1, p - 1))
       /\ IsFractionText(SubSeq(t, p + 1, Len(t)))

\* C5: every node that read classifies as Int has a text made of an optional
\* sign, one or more digits and an optional single N or M, and every node it
\* classifies as Float has a text matching the float grammar.
C5_NumericNodeText ==
  (pc = "read" /\ rd.ok) =>
     /\ rd.node.type = "EdnInt" => IsIntText(rd.node.value)
     /\ rd.node.type = "EdnFloat" => IsFloatText(rd.node.value)

(***************************************************************************)
(* Claims about read and pprint.                                           *)
(***************************************************************************)
\* Same kinds, same leaf texts, same children in the same order.
RECURSIVE SameTree(_, _)
SameTree(a, b) ==
  /\ a.type = b.type
  /\ a.value = b.value
  /\ Len(a.values) = Len(b.values)
  /\ \A i \in 1..Len(a.values) : SameTree(a.values[i], b.values[i])

\* read(edn) has no undefined behaviour.
Defined(edn) == \A u \in UninitFor(edn) : read(edn, u).exc # "UB"

\* A source whose strings are closed, which read accepts without undefined
\* behaviour, and of which read consumes every token.
WellFormed(edn) ==
  /\ ~LexLoop(LexInit, edn).inString
  /\ \A u \in UninitFor(edn) : read(edn, u).ok /\ read(edn, u).rest = <<>>

\* C6: for a well-formed source, read, then pprint in single-line mode, then
\* read again yields a tree with the same kinds, leaf texts and children.
C6_RoundTrip ==
  (pc = "reread" /\ WellFormed(src)) => rd2.ok /\ SameTree(rd.node, rd2.node)

UnterminatedString(edn) == LexLoop(LexInit, edn).inString

\* The number of brackets left open after the tokens (closers that match no
\* opener are ignored).
RECURSIVE OpenDepth(_, _)
OpenDepth(tokens, depth) ==
  IF tokens = <<>> THEN depth
  ELSE IF Head(tokens).type # "TokenParen" THEN OpenDepth(Tail(tokens), depth)
  ELSE IF Head(tokens).value \in {<<"(">>, <<"[">>, <<"{">>}
  THEN OpenDepth(Tail(tokens), depth + 1)
  ELSE OpenDepth(Tail(tokens), IF depth > 0 THEN depth - 1 ELSE 0)

UnterminatedCollection(edn) == OpenDepth(lex(edn), 0) > 0

\* C7: read never returns a tree for a source with an unterminated string
\* literal or an unterminated collection (checked where the behaviour of read
\* is defined).
C7_UnterminatedIsFatal ==
  (/\ pc # "start"
   /\ Defined(src)
   /\ UnterminatedString(src) \/ UnterminatedCollection(src)) => ~rd.ok

IsCloser(token) == token.type = "TokenParen" /\ token.value \in {<<")">>, <<"]">>, <<"}">>}
IsOpener(token) == token.type = "TokenParen" /\ ~IsCloser(token)

\* A closing bracket is the first token, or directly follows an opening
\* bracket of another kind.
CloserWhereValueExpected(edn) ==
  LET tokens == lex(edn)
  IN \/ Len(tokens) >= 1 /\ IsCloser(tokens[1])
     \/ /\ Len(tokens) >= 2
        /\ IsOpener(tokens[1])
        /\ IsCloser(tokens[2])
        /\ tokens[2].value # closeParenOf(tokens[1].value)

\* C8: read raises a fatal parse error whenever a closing bracket occurs
\* where a value is expected, whatever tokens follow it (checked where the
\* behaviour of read is defined).
C8_UnexpectedCloserIsFatal ==
  (pc # "start" /\ Defined(src) /\ CloserWhereValueExpected(src)) => ~rd.ok

(***************************************************************************)
(* Claims about Engine::run.                                               *)
(***************************************************************************)
\* C3: for every source made of several top-level forms, every form is parsed
\* (read leaves no token unread) and lowered in source order, and the entry
\* result is the value of the last form; `(= x :int32 10) (= y :int32 (+ x 5))
\* (+ x y)` yields 25 and `(defn :int32 add ((a :int32) (b :int32)) (+ a b))
\* (add 4 6)` yields 10.
C3_LastFormIsResult ==
  pc = "done" =>
    /\ \A fs \in FormSeqs :
         (Len(fs) > 1 /\ src = JoinForms(fs)) =>
           /\ rd.ok /\ rd.rest = <<>>
           /\ out = Result(Frac(fs[Len(fs)].value, 1))
    /\ src = Scenario3 => out = Result(Frac(25, 1))
    /\ src = Scenario4 => out = Result(Frac(10, 1))

\* The number a literal of StructDescs denotes.
NumberOf(text) ==
  CASE text = <<"3">> -> Frac(3, 1)
    [] text = <<"4">> -> Frac(4, 1)
    [] text = <<"5">> -> Frac(5, 1)
    [] text = <<"1", ".", "5">> -> Frac(3, 2)
    [] text = <<"2", ".", "5">> -> Frac(5, 2)
    [] text = <<"3", ".", "5">> -> Frac(7, 2)

\* The literal most recently stored at index i by the program of d.
StoredAt(d, i) == IF d.assign = i THEN d.assigned ELSE d.vals[i + 1]

\* The field indices of the field addresses computed, in the order of the code.
RECURSIVE GepIndices(_, _)
GepIndices(code, i) ==
  IF i > Len(code) THEN <<>>
  ELSE IF code[i].op = "gep" THEN <<code[i].x.idx>> \o GepIndices(code, i + 1)
  ELSE GepIndices(code, i + 1)

\* C9: for every struct S and every field F declared at index i of S, the
\* field lookup of F in `(. target :F)` and in `(= (. target :F) value)`
\* resolves to index i, and a field load returns the value most recently
\* stored at index i by struct construction or field assignment: in every
\* program of StructDescs that is lowered, the field addresses computed are
\* those of fields 0 and 1 (construction), of the field assigned, and of the
\* field read, and the run reports the value last stored in the field read.
C9_FieldLookupAndLoad ==
  \A d \in StructDescs :
    (src = StructText(d) /\ pc \in {"lowered", "done"} /\ eng.exc.type = "") =>
      /\ GepIndices(eng.st.code, 1)
           = <<0, 1>> \o (IF d.assign = -1 THEN <<>> ELSE <<d.assign>>) \o <<d.get>>
      /\ pc = "done" => out = Result(NumberOf(StoredAt(d, d.get)))

\* An operand that is a Float node or a symbol declared float32 or float64.
IsFloatOperand(kind, ta) ==
  kind = "Float" \/ (kind = "Symbol" /\ ta \in {"float32", "float64"})

\* The width of an integer operand: that of the declared type of a symbol,
\* 32 for every other operand.
OperandWidth(kind, ta) ==
  IF kind = "Symbol" THEN (IF ta = "int8" THEN 8 ELSE IF ta = "int64" THEN 64 ELSE 32) ELSE 32

IntegerType(width) == IF width = 8 THEN "i8" ELSE IF width = 64 THEN "i64" ELSE "i32"

\* The operator instruction of the last operator form lowered.
LastOperator(code) ==
  code[CHOOSE i \in 1..Len(code) :
         /\ code[i].op \in IntOps \cup FloatOps \cup ICmpOps \cup FCmpOps
         /\ \A j \in (i + 1)..Len(code) :
              code[j].op \notin IntOps \cup FloatOps \cup ICmpOps \cup FCmpOps]

\* C10: for every binary operator form `(OP a b)`, if at least one operand is
\* a Float node or a symbol whose declared type is float32 or float64, both
\* operands are widened to float64 and the result type is float64; otherwise
\* the result type is the integer type whose width is the larger of the two
\* operand widths; this for every operand kind the lowerer accepts, nested
\* list operands and comparison operators included.
C10_BinopResultType ==
  \A d \in BinopDescs :
    (src = BinopProgram(d) /\ pc \in {"lowered", "done"} /\ eng.exc.type = "") =>
      IF IsFloatOperand(d.l, d.ta) \/ IsFloatOperand(d.r, d.ta)
      THEN /\ eng.val.ty = "double"
           /\ LastOperator(eng.st.code).a[1].ty = "double"
           /\ LastOperator(eng.st.code).a[2].ty = "double"
      ELSE eng.val.ty = IntegerType(Max(OperandWidth(d.l, d.ta), OperandWidth(d.r, d.ta)))


(***************************************************************************)
(* C11.  Across the call sites lowered into one module the body of each    *)
(* user-defined function is emitted at most once: the first call of a name *)
(* emits the function (a function codegenCall creates, with its entry      *)
(* block), every later call of the name, a recursive one included, is a    *)
(* call of that function, and the lowering of recursive functions ends.    *)
(***************************************************************************)
EmittedBodies(st, name) ==
  {b \in 1..Len(st.blocks) :
     b # EntryBlock /\ st.blocks[b].fn = name /\ st.blocks[b].name = "entry"}
CallsOf(st, name) ==
  {i \in 1..Len(st.code) : st.code[i].op = "call" /\ st.code[i].x.callee = name}

C11_BodyEmittedOnce ==
  (pc \in {"lowered", "done"} /\ eng.exc.type = "") =>
    \A name \in DOMAIN eng.st.yeetFunctionTable :
      /\ Cardinality(EmittedBodies(eng.st, name)) <= 1
      /\ CallsOf(eng.st, name) # {} =>
           /\ Cardinality(EmittedBodies(eng.st, name)) = 1
           /\ eng.st.functions[name].entry \in EmittedBodies(eng.st, name)

(***************************************************************************)
(* C12.  A cond whose last clause is (else e) produces a value on every    *)
(* control path: every block that holds the value of a clause ends with a  *)
(* branch to the join block and contributes exactly one incoming value to  *)
(* the phi of the join block, the blocks that branch to the join block are *)
(* those of the incoming values, the join value has the type double, and   *)
(* the run of calc returns a value.                                        *)
(***************************************************************************)
InstructionsOf(st, b) == {i \in 1..Len(st.code) : st.code[i].b = b}
Terminator(st, b) ==
  st.code[CHOOSE i \in InstructionsOf(st, b) : \A j \in InstructionsOf(st, b) : j <= i]
BranchesTo(st, join) ==
  {b \in 1..Len(st.blocks) :
     \E i \in InstructionsOf(st, b) :
       st.code[i].op \in {"br", "condbr"}
       /\ \E t \in 1..Len(st.code[i].x.targets) : st.code[i].x.targets[t] = join}

JoinWellFormed(st, phi) ==
  /\ phi.ty = "double"
  /\ \A k \in 1..Len(phi.a) :
       /\ phi.a[k].ty = "double"
       /\ InstructionsOf(st, phi.x.blocks[k]) # {}
       /\ Terminator(st, phi.x.blocks[k]).op = "br"
       /\ Terminator(st, phi.x.blocks[k]).x.targets = <<phi.b>>
       /\ \A j \in 1..Len(phi.a) : phi.x.blocks[j] = phi.x.blocks[k] => j = k
  /\ BranchesTo(st, phi.b) = {phi.x.blocks[k] : k \in 1..Len(phi.a)}

EndsWithElse(d) == d.tests[Len(d.tests)] = "else"

C12_CondTotality ==
  \A d \in CondDescs :
    (EndsWithElse(d) /\ src = CondProgram(d) /\ pc \in {"lowered", "done"}) =>
      /\ eng.exc.type = ""
      /\ eng.val.ty = "double"
      /\ \A i \in 1..Len(eng.st.code) :
           eng.st.code[i].op = "phi" => JoinWellFormed(eng.st, eng.st.code[i])
      /\ pc = "done" => out.kind = "JIT result"

(***************************************************************************)
(* C13.  In a cond the value of a two-child clause whose test is not else  *)
(* is selected only when the test of the clause is true and the tests of   *)
(* all earlier clauses are false; a clause after an else clause is never   *)
(* lowered (no instruction has its value as an operand).                   *)
(***************************************************************************)
Conditional(d, i) == d.tests[i] \in {"true", "false"}
SelectedByTest(d, i) == d.tests[i] = "true" /\ \A j \in 1..(i - 1) : d.tests[j] = "false"
AfterElse(d, i) == \E j \in 1..(i - 1) : d.tests[j] = "else"
Lowers(st, v) ==
  \E i \in 1..Len(st.code) :
    \E k \in 1..Len(st.code[i].a) : st.code[i].a[k] = Const("i32", v)

C13_CondSelection ==
  \A d \in CondDescs :
    (src = CondProgram(d) /\ pc \in {"lowered", "done"} /\ eng.exc.type = "") =>
      \A i \in 1..Len(d.tests) :
        /\ AfterElse(d, i) => ~Lowers(eng.st, ClauseValue(i))
        /\ (Conditional(d, i) /\ pc = "done" /\ out = Result(Frac(ClauseValue(i), 1)))
             => SelectedByTest(d, i)

(***************************************************************************)
(* C14.  When the lowering of the top level produced no value and a        *)
(* function named main exists in the module, calc calls main and returns   *)
(* its result (7 in these programs); in every other case without a value   *)
(* calc returns 0.0.                                                       *)
(***************************************************************************)
ReturnsCallOfMain(st) ==
  \E i \in 1..(Len(st.code) - 1) :
    /\ st.code[i].op = "call" /\ st.code[i].x.callee = Str("main") /\ st.code[i].b = EntryBlock
    /\ st.code[i + 1].op = "ret" /\ st.code[i + 1].a = <<Reg(st.code[i].ty, i)>>
    /\ i + 1 = Len(st.code)

C14_EntryCallsMain ==
  \A d \in MainDescs :
    (src = MainProgram(d) /\ pc = "done" /\ eng.exc.type = "" /\ eng.val = Null) =>
      IF getFunction(eng.st, Str("main"))
      THEN ReturnsCallOfMain(eng.st) /\ out = Result(Frac(7, 1))
      ELSE out = Result(Frac(0, 1))

(***************************************************************************)
(* C15.  After (put q :T v), q a symbol bound to a pointer type that       *)
(* received (ref x) as a pointer parameter or by an assignment, v is       *)
(* stored through the pointer q denotes: the read of x that follows yields *)
(* v, and the binding of q is unchanged (its declared type is kept and,    *)
(* for a variable, its slot is stored to by its assignment only).          *)
(***************************************************************************)
StoresTo(st, ptr) ==
  {i \in 1..Len(st.code) : st.code[i].op = "store" /\ st.code[i].a[2] = ptr}

C15_PutStoresThroughPointer ==
  \A d \in PutDescs :
    (src = PutProgram(d) /\ pc \in {"lowered", "done"}) =>
      /\ eng.exc.type = ""
      /\ eng.st.llvmSymbolTable[<<"q">>].second = PointerTo(d.type)
      /\ d.how = "variable" =>
           Cardinality(StoresTo(eng.st, eng.st.llvmSymbolTable[<<"q">>].first)) = 1
      /\ pc = "done" => out = Result(NumberOf(d.value))

(***************************************************************************)
(* C16.  (deref p) loads through the pointer held by p, with the pointee   *)
(* type p's declared type minus one trailing '*' (the run yields the value *)
(* of the variable p points to); the dereference of a symbol whose         *)
(* declared type has no trailing '*' is a fatal form error.                *)
(***************************************************************************)
LastLoad(st) ==
  st.code[CHOOSE i \in 1..Len(st.code) :
            st.code[i].op = "load" /\ \A j \in (i + 1)..Len(st.code) : st.code[j].op # "load"]

C16_DerefLoadsPointee ==
  \A d \in DerefDescs :
    (src = DerefProgram(d) /\ pc \in {"lowered", "done"}) =>
      IF d.pointer
      THEN /\ eng.exc.type = ""
           /\ LastLoad(eng.st).ty = getLLVMType(Str(d.base))
           /\ pc = "done" => out = Result(stod(DerefValue(d)).v)
      ELSE eng.exc.type = "YeetCompileException"

(***************************************************************************)
(* C17.  Every failure raised while lowering (wrong arity, wrong child     *)
(* kind, unknown operator, unknown variable, unknown type tag, unknown     *)
(* field, struct redefinition, field-type mismatch, call argument-count    *)
(* mismatch) is a YeetCompileException that carries the line and column of *)
(* a node of the program; the lowerer raises no other kind of error.       *)
(***************************************************************************)
RECURSIVE SubNodes(_)
SubNodes(n) == {n} \cup UNION {SubNodes(n.values[i]) : i \in 1..Len(n.values)}

C17_StructuredErrorsOnly ==
  \A kind \in ErrorKinds :
    (src = ErrorProgram(kind) /\ pc \in {"lowered", "done"}) =>
      /\ eng.exc.type = "YeetCompileException"
      /\ \E n \in SubNodes(rd.node) : n.line = eng.exc.line /\ n.column = eng.exc.column

(***************************************************************************)
(* C19.  A struct form that names an already registered struct is a fatal  *)
(* error (a YeetCompileException, which leaves run) and leaves the         *)
(* registered field list and the backend type of the struct unchanged.     *)
(***************************************************************************)
C19_RedefinitionKeepsStruct ==
  \A d \in RedefDescs :
    (src = RedefProgram(d) /\ pc \in {"lowered", "done"}) =>
      /\ eng.exc.type = "YeetCompileException"
      /\ eng.exc.msg = "Struct type already defined"
      /\ eng.st.yeetStructTable[<<"S">>] = <<<<<<"x">>, Str(d.first)>>>>
      /\ eng.st.llvmStructTypes[<<"S">>] = <<getLLVMType(Str(d.first))>>
      /\ pc = "done" /\ out = Escapes

C19_Witness ==
  \E d \in RedefDescs :
    /\ d.name = "y" /\ d.first # d.second
    /\ src = RedefProgram(d) /\ pc = "done"
    /\ eng.exc.msg = "Struct type already defined"
    /\ eng.st.yeetStructTable[<<"S">>] = <<<<<<"x">>, Str(d.first)>>>>

(***************************************************************************)
(* C20.  A Discard form is ignored by the lowerer: lowering a tree that    *)
(* holds the node read from #_ 7 raises no error, and no instruction has   *)
(* the discarded payload 7 as an operand.                                  *)
(***************************************************************************)
C20_DiscardIgnored ==
  \A place \in DiscardPlaces :
    (src = DiscardProgram(place) /\ rd.ok /\ pc \in {"lowered", "done"}) =>
      /\ eng.exc.type = ""
      /\ ~Lowers(eng.st, 7)

(***************************************************************************)
(* C18.  Unless usage was asked for, main exits with code 0 exactly when   *)
(* calc of the first file was called and returned; it exits with code 1    *)
(* when read threw, when codegenExpr threw, when the JIT could not be      *)
(* created, when the module could not be added and when calc could not be  *)
(* looked up, whatever was thrown; and the string it reads is the contents *)
(* of the first file named, also when two files are named.                 *)
(***************************************************************************)
MainFailed ==
  \/ pc = "parse failed" /\ rd.exc # "crash"
  \/ pc \in {"codegen failed", "create failed", "add failed", "lookup failed"}

MainExecutes == pc \in {"read", "parse failed", "codegen", "codegen failed", "create failed",
                        "jit", "add failed", "lookup failed", "returned"}

C18_ExitCodes ==
  /\ (status # "running" /\ pc # "usage") => ((status = "exit 0") <=> (out.kind = "JIT result"))
  /\ MainFailed => status = "exit 1"
  /\ MainExecutes => src = files[argv.filenames[1]].contents

(***************************************************************************)
(* C21.  A List node whose first child is a List and whose children are    *)
(* all List, Int, Float or Symbol nodes is lowered as a sequence, for      *)
(* every number of children including one: no error is raised, one         *)
(* arithmetic instruction is emitted for each child that is a list, and    *)
(* the result of the run is the value of the last child.                   *)
(***************************************************************************)
ListForms(fs) == {i \in 1..Len(fs) : IsListForm(fs[i])}
Arithmetic(st) == {i \in 1..Len(st.code) : st.code[i].op \in {"add", "mul"}}

C21_SequenceOfAnyLength ==
  \A fs \in SeqDescs :
    (src = SeqProgram(fs) /\ rd.ok /\ pc \in {"lowered", "done"}) =>
      /\ eng.exc.type = ""
      /\ Cardinality(Arithmetic(eng.st)) = Cardinality(ListForms(fs))
      /\ pc = "done" => out = Result(Frac(fs[Len(fs)].value, 1))

(***************************************************************************)
(* C22.  After the call sites of a user-defined function NAME with the     *)
(* parameter n have been lowered, n is bound in llvmSymbolTable to the     *)
(* slot that was allocated for it in the body of NAME, with the declared   *)
(* type of the parameter, whether or not the caller had bound n before;    *)
(* a second call allocates no second slot.                                 *)
(***************************************************************************)
SlotsIn(st, name) ==
  {i \in 1..Len(st.code) :
     /\ st.code[i].op = "alloca"
     /\ st.code[i].b # EntryBlock
     /\ st.blocks[st.code[i].b].fn = name}

C22_ParameterBindingsLeak ==
  \A d \in LeakDescs :
    (src = LeakProgram(d) /\ pc \in {"lowered", "done"} /\ eng.exc.type = "") =>
      /\ <<"n">> \in DOMAIN eng.st.llvmSymbolTable
      /\ eng.st.llvmSymbolTable[<<"n">>].second = Str("int32")
      /\ eng.st.llvmSymbolTable[<<"n">>].first.k = "reg"
      /\ eng.st.llvmSymbolTable[<<"n">>].first.v \in SlotsIn(eng.st, d.name)
      /\ Cardinality(SlotsIn(eng.st, d.name)) = 1

(***************************************************************************)
(* C23.  Every STRING token emitted by lex carries as text the bytes       *)
(* between its opening quote and the next quote that is not escaped, with  *)
(* the escapes resolved: of a backslash and one of t, n, f, r both bytes   *)
(* are kept, of a backslash and any other byte only that byte.             *)
(***************************************************************************)
RECURSIVE StringText(_, _)
StringText(s, i) ==
  IF i > Len(s) \/ s[i] = QUOTE THEN <<>>
  ELSE IF s[i] = escapeChar /\ i < Len(s)
  THEN (IF s[i + 1] \in {"t", "n", "f", "r"} THEN <<escapeChar, s[i + 1]>> ELSE <<s[i + 1]>>)
       \o StringText(s, i + 2)
  ELSE <<s[i]>> \o StringText(s, i + 1)

C23_StringTokenText ==
  \A i \in 1..Len(lx.tokens) :
    lx.tokens[i].type = "TokenString" =>
      lx.tokens[i].value = StringText(src, starts[i] + 1)

(***************************************************************************)
(* C24.  Every ATOM token emitted by lex is a contiguous run of source     *)
(* bytes, starting at its first byte, without a whitespace or bracket      *)
(* byte; the tokens are emitted in the order of their first bytes; an atom *)
(* that starts with #_ or with a backslash is two bytes long at most.      *)
(***************************************************************************)
AtomDelimiters == {" ", NL, "("}
IsRunOf(s, value, start) ==
  /\ start >= 1
  /\ start + Len(value) - 1 <= Len(s)
  /\ value = SubSeq(s, start, start + Len(value) - 1)

C24_AtomRunsInOrder ==
  \A i \in 1..Len(lx.tokens) :
    /\ i > 1 => starts[i - 1] < starts[i]
    /\ lx.tokens[i].type = "TokenAtom" =>
         /\ IsRunOf(src, lx.tokens[i].value, starts[i])
         /\ \A k \in 1..Len(lx.tokens[i].value) : lx.tokens[i].value[k] \notin AtomDelimiters
         /\ (lx.tokens[i].value[1] = escapeChar
               \/ (Len(lx.tokens[i].value) >= 2 /\ lx.tokens[i].value[1] = "#"
                     /\ lx.tokens[i].value[2] = "_"))
              => Len(lx.tokens[i].value) <= 2

(***************************************************************************)
(* C25.  The typed assignment (= x :type value) allocates a slot in the    *)
(* function under construction and binds x to (slot, type) when x was not  *)
(* bound before the form; when x was bound it allocates nothing and leaves *)
(* the binding of x as it was, also for a different type; it stores into   *)
(* the slot x is bound to; the binding of no other symbol changes.         *)
(***************************************************************************)
\* The engine before the last form: the forms before it lowered.
BeforeAssign(d, g) ==
  codegenExpr(read(L(AssignPrefix(d)), CHOOSE u \in UninitFor(L(AssignPrefix(d))) : TRUE).node,
              EngineInit(g)).st

NewSlots(before, after) ==
  {i \in (Len(before.code) + 1)..Len(after.code) :
     after.code[i].op = "alloca" /\ after.code[i].b = EntryBlock}
StoresInto(before, after, slot) ==
  \E i \in (Len(before.code) + 1)..Len(after.code) :
    after.code[i].op = "store" /\ after.code[i].b = EntryBlock /\ after.code[i].a[2] = slot

AssignFrame(before, after, type) ==
  /\ <<"x">> \in DOMAIN after.llvmSymbolTable
  /\ IF <<"x">> \in DOMAIN before.llvmSymbolTable
     THEN /\ after.llvmSymbolTable[<<"x">>] = before.llvmSymbolTable[<<"x">>]
          /\ NewSlots(before, after) = {}
     ELSE /\ after.llvmSymbolTable[<<"x">>].second = Str(type)
          /\ after.llvmSymbolTable[<<"x">>].first.k = "reg"
          /\ NewSlots(before, after) = {after.llvmSymbolTable[<<"x">>].first.v}
  /\ StoresInto(before, after, after.llvmSymbolTable[<<"x">>].first)
  /\ \A s \in DOMAIN after.llvmSymbolTable \ {<<"x">>} :
       s \in DOMAIN before.llvmSymbolTable
         /\ after.llvmSymbolTable[s] = before.llvmSymbolTable[s]

C25_TypedAssignmentFrame ==
  \A d \in AssignDescs :
    (src = AssignProgram(d) /\ pc \in {"lowered", "done"} /\ eng.exc.type = "") =>
      AssignFrame(BeforeAssign(d, eng.st.g), eng.st, d.type)

(***************************************************************************)
(* C26.  (while test body) is a pre-test loop.  In the emitted code the    *)
(* condition block ends with a branch on test # 0 to the body block and    *)
(* else to the after-block, nothing else branches to the body block or to  *)
(* the after-block, and two blocks end with a branch to the condition      *)
(* block: the one before the loop and the one the body ends in.  Run,      *)
(* the test is evaluated once more than the body is executed, the body as  *)
(* often as the test was non-zero (not at all when it is zero on entry),   *)
(* and the value of the form is 0.0.                                       *)
(***************************************************************************)
\* The counting loop as a pre-test loop: the value of t when it ends.
RECURSIVE PreTestLoop(_, _)
PreTestLoop(t, bound) == IF t + 1 < bound THEN PreTestLoop(t + 1 + 10, bound) ELSE t + 1

WhileExpected(d) ==
  IF ~d.last \/ d.kind = "down" THEN 0
  ELSE IF d.kind = "nested" THEN d.bound
  ELSE PreTestLoop(0, d.bound)

CondBlocks(st) == {b \in 1..Len(st.blocks) : st.blocks[b].name = "while.cond"}
TestsNonZero(st, c) ==
  /\ c.k = "reg"
  /\ st.code[c.v].op \in {"icmp ne", "fcmp one"}
  /\ st.code[c.v].a[2].k = "const"
  /\ st.code[c.v].a[2].v = (IF st.code[c.v].op = "icmp ne" THEN 0 ELSE Frac(0, 1))
PreTestShape(st, condBB) ==
  /\ st.blocks[condBB + 1].name = "while.body"
  /\ st.blocks[condBB + 2].name = "while.after"
  /\ Terminator(st, condBB).op = "condbr"
  /\ Terminator(st, condBB).x.targets = <<condBB + 1, condBB + 2>>
  /\ TestsNonZero(st, Terminator(st, condBB).a[1])
  /\ Cardinality(BranchesTo(st, condBB)) = 2
  /\ \A b \in BranchesTo(st, condBB) :
       /\ b # condBB
       /\ Terminator(st, b).op = "br"
       /\ Terminator(st, b).x.targets = <<condBB>>
  /\ BranchesTo(st, condBB + 1) = {condBB}
  /\ BranchesTo(st, condBB + 2) = {condBB}

C26_WhileIsPreTestLoop ==
  \A d \in WhileDescs :
    (src = WhileProgram(d) /\ pc \in {"lowered", "done"}) =>
      /\ eng.exc.type = ""
      /\ Cardinality(CondBlocks(eng.st)) = (IF d.kind = "nested" THEN 2 ELSE 1)
      /\ \A condBB \in CondBlocks(eng.st) : PreTestShape(eng.st, condBB)
      /\ ~d.last => eng.val = Const("double", Frac(0, 1))
      /\ pc = "done" => out = Result(Frac(WhileExpected(d), 1))

C26_Witness ==
  \E d \in WhileDescs :
    /\ d.kind = "count" /\ d.bound = 25 /\ d.last
    /\ src = WhileProgram(d) /\ pc = "done" /\ out = Result(Frac(34, 1))

(***************************************************************************)
(* C27: every STRING token is parsed to a String node whose text is the    *)
(* token's text, whatever that text is: a source whose first token is a    *)
(* STRING is read to a String node with the text of that token (never a    *)
(* Nil or Tagged node, never an unexpected-closer error), and a STRING     *)
(* token directly inside a list is a String child of that list and does    *)
(* not close it (sources on which read has undefined behaviour aside).     *)
(***************************************************************************)
IsStringNode(node, token) == node.type = "EdnString" /\ node.value = token.value

C27_StringTokenIsStringNode ==
  LET tokens == lex(src)
  IN (pc # "start" /\ tokens # <<>> /\ Defined(src)) =>
       /\ tokens[1].type = "TokenString" =>
            rd.ok /\ IsStringNode(rd.node, tokens[1])
       /\ (/\ Len(tokens) >= 3
           /\ tokens[1].type = "TokenParen" /\ tokens[1].value = <<"(">>
           /\ tokens[2].type = "TokenString"
           /\ tokens[3].type = "TokenParen" /\ tokens[3].value = <<")">>) =>
            /\ rd.ok
            /\ rd.node.type = "EdnList"
            /\ Len(rd.node.values) = 1
            /\ IsStringNode(rd.node.values[1], tokens[2])

(***************************************************************************)
(* C28: after any sequence of lowered forms, every load or store emitted   *)
(* inside a function F addresses a storage slot (directly or through the   *)
(* field addresses computed from it) that was allocated in F or is an      *)
(* incoming parameter of F: never a slot of the entry function or of       *)
(* another function, and in the caller never a slot of the callee.         *)
(***************************************************************************)
PointerOperand(inst) == IF inst.op = "load" THEN inst.a[1] ELSE inst.a[2]

\* The instruction a pointer is derived from, through its field addresses.
RECURSIVE SlotOf(_, _)
SlotOf(st, ptr) ==
  IF ptr.k = "reg" /\ st.code[ptr.v].op = "gep" THEN SlotOf(st, st.code[ptr.v].a[1]) ELSE ptr

FunctionOf(st, i) == st.blocks[st.code[i].b].fn

SlotIsLocal(st, i) ==
  LET slot == SlotOf(st, PointerOperand(st.code[i]))
  IN (slot.k = "reg" /\ st.code[slot.v].op = "alloca") =>
       FunctionOf(st, slot.v) = FunctionOf(st, i)

C28_SlotsAreLocal ==
  pc \in {"lowered", "done"} =>
    \A i \in 1..Len(eng.st.code) :
      eng.st.code[i].op \in {"load", "store"} => SlotIsLocal(eng.st, i)

(***************************************************************************)
(* C29: for every comparison (OP a b) with OP one of ==, !=, <, <=, >, >=, *)
(* the number observed when the comparison is the entry result or the      *)
(* value of a cond clause is 1 when the relation holds and 0 when it does  *)
(* not, on the integer path and on the floating path.                      *)
(***************************************************************************)
Holds(op, a, b) ==
  CASE op = "==" -> a = b
    [] op = "!=" -> a # b
    [] op = "<" -> a < b
    [] op = "<=" -> a <= b
    [] op = ">" -> a > b
    [] op = ">=" -> a >= b

C29_ComparisonIsOneOrZero ==
  \A d \in CmpDescs :
    (src = CmpProgram(d) /\ pc = "done") =>
      out = Result(Frac(IF Holds(d.op, d.a, d.b) THEN 1 ELSE 0, 1))

(***************************************************************************)
(* C30: the construction (= target (StructName (v1 ... vk))) is a fatal    *)
(* form error unless k is the number of fields declared for StructName;    *)
(* when it succeeds, the value vi is stored at the field index i - 1 for   *)
(* every i and the target is bound to the new slot with the declared type  *)
(* StructName.                                                             *)
(***************************************************************************)
StoresField(st, slot, idx, v) ==
  \E i \in 1..Len(st.code) :
    /\ st.code[i].op = "store"
    /\ st.code[i].a[1] = Const("i32", v)
    /\ st.code[i].a[2].k = "reg"
    /\ st.code[st.code[i].a[2].v].op = "gep"
    /\ st.code[st.code[i].a[2].v].a[1] = slot
    /\ st.code[st.code[i].a[2].v].x.idx = idx

Constructed(st, k) ==
  /\ <<"p">> \in DOMAIN st.llvmSymbolTable
  /\ st.llvmSymbolTable[<<"p">>].second = <<"S">>
  /\ st.llvmSymbolTable[<<"p">>].first.k = "reg"
  /\ st.code[st.llvmSymbolTable[<<"p">>].first.v].op = "alloca"
  /\ \A i \in 1..k : StoresField(st, st.llvmSymbolTable[<<"p">>].first, i - 1, i + 2)

C30_StructConstructionArity ==
  \A k \in 0..MaxValues :
    (src = ArityProgram(k) /\ pc \in {"lowered", "done"}) =>
      IF k = Len(eng.st.yeetStructTable[<<"S">>])
      THEN eng.exc.type = "" /\ Constructed(eng.st, k)
      ELSE eng.exc.type = "YeetCompileException"

=============================================================================
